---- MODULE Spec2Model ----
(***************************************************************************)
(* Stream accumulation state machine of the LLM proxy provider adapters    *)
(* (MinimaxStreamAdapter and MistralStreamAdapter, adapterV2).             *)
(*                                                                         *)
(* JavaScript values are tagged records: Undefined, Null, Str(s), Num(n),  *)
(* Arr(seq).  A string is a sequence of tokens, so "" is Str(<<>>) and     *)
(* `a + b` is concatenation of the token sequences.  Date.now() is the     *)
(* variable now, which advances with every call.                           *)
(***************************************************************************)
EXTENDS Integers, Sequences, FiniteSets, TLC

\* Longest chunk sequence fed to one adapter.
MaxChunks == 3

----------------------------------------------------------------------------
\* JavaScript values

Undefined == [tag |-> "undefined"]
Null == [tag |-> "null"]
Str(s) == [tag |-> "string", v |-> s]
Num(n) == [tag |-> "number", v |-> n]
Bool(b) == [tag |-> "boolean", v |-> b]
Arr(s) == [tag |-> "array", v |-> s]

\* x == null || x === undefined
IsNullish(x) == x.tag \in {"undefined", "null"}

\* JavaScript truthiness: "", 0, null and undefined are falsy; arrays and
\* objects (the empty array included) are truthy.
Truthy(x) ==
  CASE x.tag = "undefined" -> FALSE
    [] x.tag = "null" -> FALSE
    [] x.tag = "string" -> x.v # <<>>
    [] x.tag = "number" -> x.v # 0
    [] OTHER -> TRUE

\* a ?? b
Coalesce(a, b) == IF IsNullish(a) THEN b ELSE a

\* `data: ${JSON.stringify(x)}\n\n`
SSEFrame(x) == Str(<<"data: ", x, "\n\n">>)

----------------------------------------------------------------------------
\* Stream chunks (ChatCompletionChunk)

Usage(p, c) == [tag |-> "object", prompt_tokens |-> p, completion_tokens |-> c]

Function(name, arguments) ==
  [tag |-> "object", name |-> name, arguments |-> arguments]

ToolCallDelta(index, id, function) ==
  [index |-> index, id |-> id, function |-> function]

Delta(role, content, tool_calls) ==
  [role |-> role, content |-> content, tool_calls |-> tool_calls]

Choice(delta, finish_reason) == [delta |-> delta, finish_reason |-> finish_reason]

Chunk(choices, usage) ==
  [id |-> Str(<<"resp-1">>), model |-> Str(<<"model-1">>),
   choices |-> choices, usage |-> usage]

EmptyDelta == Delta(Undefined, Undefined, Undefined)

\* Chunks without a choice: the choices array is absent or empty.
NoChoiceChunks ==
  { Chunk(ch, u) : ch \in {Undefined, Arr(<<>>)},
                   u \in {Undefined, Usage(Num(1), Num(2))} }
  \cup { Chunk(Arr(<<>>), Usage(Undefined, Num(1))) }

\* Text and role-marker chunks.
TextChunks ==
  { Chunk(Arr(<<Choice(d, Null)>>), Undefined) :
      d \in { Delta(Str(<<"assistant">>), Str(<<>>), Undefined),
              Delta(Undefined, Str(<<"Hello">>), Undefined),
              Delta(Undefined, Null, Undefined),
              EmptyDelta } }

\* Tool-call fragments, for the stream indices 0, 1 and 7.
ToolCallFragments ==
  { ToolCallDelta(0, Str(<<"call_a">>), Function(Str(<<"read_file">>), Str(<<>>))),
    ToolCallDelta(0, Undefined, Function(Undefined, Str(<<"{">>))),
    ToolCallDelta(1, Str(<<"call_b">>), Function(Str(<<"list">>), Str(<<"{">>))),
    ToolCallDelta(1, Undefined, Function(Undefined, Str(<<"}">>))),
    ToolCallDelta(7, Str(<<"call_c">>), Undefined) }

ToolCallChunks ==
  { Chunk(Arr(<<Choice(Delta(Undefined, Undefined, Arr(<<f>>)), Null)>>), Undefined) :
      f \in ToolCallFragments }
  \cup
  { Chunk(Arr(<<Choice(Delta(Undefined, Undefined, Arr(<<>>)), Null)>>), Undefined),
    Chunk(Arr(<<Choice(Delta(Undefined, Undefined,
        Arr(<<ToolCallDelta(1, Str(<<"call_b">>), Function(Str(<<"list">>), Str(<<"{">>))),
              ToolCallDelta(0, Str(<<"call_a">>), Function(Str(<<"read_file">>), Str(<<"{">>)))>>)),
        Null)>>), Undefined) }

\* Chunks whose choice carries a finish reason, with and without usage.
FinishChunks ==
  { Chunk(Arr(<<Choice(EmptyDelta, Str(<<"stop">>))>>), Undefined),
    Chunk(Arr(<<Choice(EmptyDelta, Str(<<"length">>))>>), Undefined),
    Chunk(Arr(<<Choice(EmptyDelta, Str(<<"stop">>))>>), Usage(Num(1), Num(2))),
    Chunk(Arr(<<Choice(Delta(Undefined, Str(<<"!">>), Undefined), Str(<<"tool_calls">>))>>),
          Undefined) }

\* A chunk with a choice and usage but no finish reason.
UsageChunks ==
  { Chunk(Arr(<<Choice(Delta(Undefined, Str(<<"Hello">>), Undefined), Null)>>),
          Usage(Num(2), Undefined)) }

Chunks ==
  NoChoiceChunks \cup TextChunks \cup ToolCallChunks \cup FinishChunks \cup UsageChunks

Providers == {"minimax", "mistral"}

----------------------------------------------------------------------------
\* State

VARIABLES
  provider,                \* which adapter class this instance is
  state,                   \* StreamAccumulatorState
  currentToolCallIndices,  \* Map<number, number>: stream index -> slot
  result,                  \* what the last processChunk call returned
  now,                     \* Date.now()
  chunks,                  \* the chunks processChunk has been called on
  ended,                   \* the frames and response were materialized
  endSSE,                  \* value of formatEndSSE()
  response,                \* value of toProviderResponse()
  rawToolCallFrames,       \* value of getRawToolCallEvents()
  adapters,                \* two stream adapter instances alive together
  toolCallIndexMaps,       \* the Map objects the two instances refer to
  requestProvider,         \* which request adapter class is under observation
  request,                 \* RequestAdapter.request
  modifiedModel,           \* RequestAdapter.modifiedModel
  toolResultUpdates,       \* RequestAdapter.toolResultUpdates
  responseProvider,        \* which response adapter class is under observation
  wrappedResponse,         \* ResponseAdapter.response
  body,                    \* the upstream response body: its lines and bytes
  consumed,                \* how many of them reader.read() has delivered
  kept,                    \* the bytes of an incomplete character held by the decoder
  buffer,                  \* parseSSEStream: buffer
  lines,                   \* parseSSEStream: the lines the for loop has yet to visit
  yielded,                 \* the chunks the generator has yielded
  logged,                  \* the lines logger.warn was called with
  pc,                      \* where the generator stands
  reader,                  \* the lock on the body: none, locked, released
  releases,                \* how often reader.releaseLock() was called
  browserSubscriptions,    \* Map<WebSocket, BrowserStreamSubscription>
  intervals,               \* the interval timers set and not cleared, each with its WebSocket
  handlers,                \* the subscribe handlers suspended at an await
  captures,                \* the sendScreenshot calls awaiting the screenshot
  readyState,              \* ws.readyState of each WebSocket
  wss,                     \* whether the context has a WebSocketServer
  lastOrphanCleanupTime,   \* Map<agentId, number>, in insertion order
  lastCleanupCall,         \* when cleanupOrphanedTabs was last invoked for each agent
  lastRequest,             \* the last message or event received on each WebSocket
  stops,                   \* how often stop() has returned
  agentsTable,             \* agents: id -> scope and author_id
  teamMemberTable,         \* team_member: (team_id, user_id)
  agentTeamTable,          \* agent_team: (agent_id, team_id)
  returned                 \* the last method call on an adapter, with its result

streamVars == <<provider, state, currentToolCallIndices, result, chunks,
                ended, endSSE, response, rawToolCallFrames>>

pairVars == <<adapters, toolCallIndexMaps>>

requestVars == <<requestProvider, request, modifiedModel, toolResultUpdates>>

responseVars == <<responseProvider, wrappedResponse>>

clientVars == <<body, consumed, kept, buffer, lines, yielded, logged, pc, reader,
                releases>>

browserVars == <<browserSubscriptions, intervals, handlers, captures, readyState,
                 wss, lastOrphanCleanupTime, lastCleanupCall, lastRequest, stops>>

accessVars == <<agentsTable, teamMemberTable, agentTeamTable>>

vars == <<now, returned, streamVars, pairVars, requestVars, responseVars,
          clientVars, browserVars, accessVars>>

----------------------------------------------------------------------------
\* Parts of processChunk

\* toolCallDelta.function?.name, toolCallDelta.function?.arguments
FunctionName(d) == IF IsNullish(d.function) THEN Undefined ELSE d.function.name
FunctionArguments(d) ==
  IF IsNullish(d.function) THEN Undefined ELSE d.function.arguments

\* Mutant of AppendText: the delta is assigned instead of appended.
AppendTextAssigning(text, delta) ==
  IF Truthy(delta.content) THEN delta.content ELSE text

\* if (delta.content) state.text += delta.content
AppendText(text, delta) ==
  IF Truthy(delta.content) THEN Str(text.v \o delta.content.v) ELSE text

\* Mutant of AllocateSlot: a slot is allocated for every fragment, the
\* has(index) test is missing.
AllocateSlotAlways(acc, d) ==
  [indices |-> (d.index :> Len(acc.toolCalls)) @@ acc.indices,
   toolCalls |-> Append(acc.toolCalls,
                   [id |-> Coalesce(d.id, Str(<<>>)),
                    name |-> Coalesce(FunctionName(d), Str(<<>>)),
                    arguments |-> Str(<<>>)])]

\* if (!currentToolCallIndices.has(index)) { set(index, toolCalls.length); push(seed) }
AllocateSlot(acc, d) ==
  IF d.index \in DOMAIN acc.indices
    THEN acc
    ELSE [indices |-> acc.indices @@ (d.index :> Len(acc.toolCalls)),
          toolCalls |-> Append(acc.toolCalls,
                          [id |-> Coalesce(d.id, Str(<<>>)),
                           name |-> Coalesce(FunctionName(d), Str(<<>>)),
                           arguments |-> Str(<<>>)])]

\* if (toolCallDelta.id) toolCall.id = toolCallDelta.id
MergeId(toolCall, d) ==
  IF Truthy(d.id) THEN [toolCall EXCEPT !.id = d.id] ELSE toolCall

\* if (toolCallDelta.function?.name) toolCall.name = toolCallDelta.function.name
MergeName(toolCall, d) ==
  IF Truthy(FunctionName(d))
    THEN [toolCall EXCEPT !.name = FunctionName(d)]
    ELSE toolCall

\* Mutant of MergeArguments: the fragment replaces the accumulated string.
MergeArgumentsReplacing(toolCall, d) ==
  IF Truthy(FunctionArguments(d))
    THEN [toolCall EXCEPT !.arguments = FunctionArguments(d)]
    ELSE toolCall

\* if (toolCallDelta.function?.arguments) toolCall.arguments += ...arguments
MergeArguments(toolCall, d) ==
  IF Truthy(FunctionArguments(d))
    THEN [toolCall EXCEPT !.arguments = Str(@.v \o FunctionArguments(d).v)]
    ELSE toolCall

\* The slot the loop body writes to: currentToolCallIndices.get(index),
\* as a position of the 1-based sequence state.toolCalls.
SlotOf(indices, d) == indices[d.index] + 1

\* One iteration of `for (const toolCallDelta of delta.tool_calls)`.
MergeToolCallDelta(acc, d) ==
  LET a == AllocateSlot(acc, d)
      slot == SlotOf(a.indices, d)
  IN [a EXCEPT !.toolCalls[slot] =
        MergeArguments(MergeName(MergeId(@, d), d), d)]

RECURSIVE MergeToolCallDeltas(_, _)
MergeToolCallDeltas(acc, deltas) ==
  IF deltas = <<>>
    THEN acc
    ELSE MergeToolCallDeltas(MergeToolCallDelta(acc, Head(deltas)), Tail(deltas))

\* state.usage = { inputTokens: prompt_tokens ?? 0, outputTokens: completion_tokens ?? 0 }
NormalizeUsage(usage) ==
  [tag |-> "object",
   inputTokens |-> Coalesce(usage.prompt_tokens, Num(0)),
   outputTokens |-> Coalesce(usage.completion_tokens, Num(0))]

\* Mutant of RecordStopReason: only the first finish reason is recorded.
RecordStopReasonOnce(stopReason, choice) ==
  IF Truthy(choice.finish_reason) /\ stopReason = Null
    THEN choice.finish_reason
    ELSE stopReason

\* Mutant of RecordStopReason: the assignment is not guarded, a chunk
\* without a finish reason stores its null.
RecordStopReasonUnguarded(stopReason, choice) == choice.finish_reason

\* if (choice.finish_reason) state.stopReason = choice.finish_reason
RecordStopReason(stopReason, choice) ==
  IF Truthy(choice.finish_reason) THEN choice.finish_reason ELSE stopReason

\* The head of processChunk: firstChunkTime is set once, responseId and
\* model are refreshed from every chunk.
Refreshed(st, chunk, t) ==
  [st EXCEPT !.timing.firstChunkTime = IF @ = Null THEN Num(t) ELSE @,
             !.responseId = chunk.id,
             !.model = chunk.model]

\* Mutant of WithToolCalls: the raw chunk is pushed once per fragment.
WithToolCallsPushPerFragment(st, indices, chunk, delta) ==
  IF Truthy(delta.tool_calls)
    THEN LET acc == MergeToolCallDeltas(
                      [indices |-> indices, toolCalls |-> st.toolCalls],
                      delta.tool_calls.v)
         IN [state |-> [st EXCEPT !.toolCalls = acc.toolCalls,
                                  !.rawToolCallEvents =
                                     @ \o [i \in DOMAIN delta.tool_calls.v |-> chunk]],
             indices |-> acc.indices]
    ELSE [state |-> st, indices |-> indices]

\* The tool-call block of processChunk: the loop, then the raw chunk is
\* pushed to rawToolCallEvents.
WithToolCalls(st, indices, chunk, delta) ==
  IF Truthy(delta.tool_calls)
    THEN LET acc == MergeToolCallDeltas(
                      [indices |-> indices, toolCalls |-> st.toolCalls],
                      delta.tool_calls.v)
         IN [state |-> [st EXCEPT !.toolCalls = acc.toolCalls,
                                  !.rawToolCallEvents = Append(@, chunk)],
             indices |-> acc.indices]
    ELSE [state |-> st, indices |-> indices]

ChunkProcessingResult(sseData, isToolCallChunk, isFinal) ==
  [tag |-> "result", sseData |-> sseData,
   isToolCallChunk |-> isToolCallChunk, isFinal |-> isFinal]

\* chunk.choices[0] on a chunk that has no choices property
TypeError == [tag |-> "TypeError"]

----------------------------------------------------------------------------
\* MinimaxStreamAdapter.processChunk

\* Mutant of MinimaxSseData: the role marker is not counted as content.
MinimaxSseDataWithoutRole(chunk, delta) ==
  IF Truthy(delta.content) \/ Truthy(delta.tool_calls)
    THEN SSEFrame(chunk)
    ELSE Null

\* const hasContent = delta.content || delta.tool_calls || delta.role;
\* if (hasContent) sseData = `data: ${JSON.stringify(chunk)}\n\n`
MinimaxSseData(chunk, delta) ==
  IF Truthy(delta.content) \/ Truthy(delta.tool_calls) \/ Truthy(delta.role)
    THEN SSEFrame(chunk)
    ELSE Null

\* Mutant of MinimaxIsFinal: only the finish reason "stop" ends the stream.
MinimaxIsFinalOnStop(choice) == choice.finish_reason = Str(<<"stop">>)

\* if (choice.finish_reason) isFinal = true
MinimaxIsFinal(choice) == Truthy(choice.finish_reason)

\* if (chunk.usage) state.usage = ...  (reached only when there is a choice)
MinimaxUsage(usage, chunk) ==
  IF Truthy(chunk.usage) THEN NormalizeUsage(chunk.usage) ELSE usage

\* if (!choice) return { sseData: null, isToolCallChunk: false, isFinal: false }
MinimaxNoChoiceResult == ChunkProcessingResult(Null, FALSE, FALSE)

MinimaxProcessChunk(st, indices, chunk, t) ==
  LET s0 == Refreshed(st, chunk, t)
  IN IF IsNullish(chunk.choices)
       THEN [state |-> s0, indices |-> indices, result |-> TypeError]
     ELSE IF chunk.choices.v = <<>>
       THEN [state |-> s0, indices |-> indices,
             result |-> MinimaxNoChoiceResult]
     ELSE
       LET choice == chunk.choices.v[1]
           delta == choice.delta
           s1 == [s0 EXCEPT !.text = AppendText(@, delta)]
           tc == WithToolCalls(s1, indices, chunk, delta)
           s2 == [tc.state EXCEPT
                    !.stopReason = RecordStopReason(@, choice),
                    !.usage = MinimaxUsage(@, chunk)]
       IN [state |-> s2, indices |-> tc.indices,
           result |-> ChunkProcessingResult(MinimaxSseData(chunk, delta),
                                            Truthy(delta.tool_calls),
                                            MinimaxIsFinal(choice))]

----------------------------------------------------------------------------
\* MistralStreamAdapter.processChunk

\* if (delta.content) { ...; sseData = `data: ${JSON.stringify(chunk)}\n\n` }
MistralSseData(chunk, delta) ==
  IF Truthy(delta.content) THEN SSEFrame(chunk) ELSE Null

\* isFinal: this.state.usage !== null, with and without a choice
MistralIsFinal(usage) == usage # Null

\* if (chunk.usage) state.usage = ...  (before the choice is looked at)
MistralUsage(usage, chunk) ==
  IF Truthy(chunk.usage) THEN NormalizeUsage(chunk.usage) ELSE usage

\* Mutant of MistralNoChoiceResult: a chunk without a choice is always final.
MistralNoChoiceResultFinal(usage) == ChunkProcessingResult(Null, FALSE, TRUE)

\* if (!choice) return { sseData: null, isToolCallChunk: false,
\*                        isFinal: this.state.usage !== null }
MistralNoChoiceResult(usage) == ChunkProcessingResult(Null, FALSE, usage # Null)

MistralProcessChunk(st, indices, chunk, t) ==
  LET s0 == [Refreshed(st, chunk, t) EXCEPT !.usage = MistralUsage(@, chunk)]
  IN IF IsNullish(chunk.choices)
       THEN [state |-> s0, indices |-> indices, result |-> TypeError]
     ELSE IF chunk.choices.v = <<>>
       THEN [state |-> s0, indices |-> indices,
             result |-> MistralNoChoiceResult(s0.usage)]
     ELSE
       LET choice == chunk.choices.v[1]
           delta == choice.delta
           s1 == [s0 EXCEPT !.text = AppendText(@, delta)]
           tc == WithToolCalls(s1, indices, chunk, delta)
           s2 == [tc.state EXCEPT !.stopReason = RecordStopReason(@, choice)]
       IN [state |-> s2, indices |-> tc.indices,
           result |-> ChunkProcessingResult(MistralSseData(chunk, delta),
                                            Truthy(delta.tool_calls),
                                            MistralIsFinal(s2.usage))]

----------------------------------------------------------------------------
\* formatEndSSE and toProviderResponse

\* Mutant of FinishReasonOrStop: the default is missing.
FinishReasonRaw(stopReason) == stopReason

\* this.state.stopReason ?? "stop"
FinishReasonOrStop(stopReason) == Coalesce(stopReason, Str(<<"stop">>))

\* `data: ${JSON.stringify(finalChunk)}\n\ndata: [DONE]\n\n`
formatEndSSE(st, t) ==
  LET finalChunk ==
        [id |-> st.responseId, object |-> "chat.completion.chunk",
         created |-> t, model |-> st.model,
         choices |-> Arr(<<[index |-> 0, delta |-> EmptyDelta,
                           finish_reason |-> FinishReasonOrStop(st.stopReason)]>>)]
  IN Str(<<"data: ", finalChunk, "\n\n", "data: [DONE]\n\n">>)

\* Mutant of TypedFunctionCall: the id is put where the name belongs.
TypedFunctionCallNamedById(tc) ==
  [id |-> tc.id, type |-> "function",
   function |-> [name |-> tc.id, arguments |-> tc.arguments]]

\* tc => { id, type: "function", function: { name, arguments } }
TypedFunctionCall(tc) ==
  [id |-> tc.id, type |-> "function",
   function |-> [name |-> tc.name, arguments |-> tc.arguments]]

\* usage?.inputTokens ?? 0, usage?.outputTokens ?? 0
InputTokensOrZero(usage) == IF usage = Null THEN 0 ELSE usage.inputTokens.v
OutputTokensOrZero(usage) == IF usage = Null THEN 0 ELSE usage.outputTokens.v

toProviderResponse(st, t) ==
  [id |-> st.responseId, object |-> "chat.completion",
   created |-> t, model |-> st.model,
   choices |-> Arr(<<
     [index |-> 0,
      message |->
        [role |-> "assistant",
         content |-> IF Truthy(st.text) THEN st.text ELSE Null,
         tool_calls |->
           IF Len(st.toolCalls) > 0
             THEN Arr([i \in 1..Len(st.toolCalls) |-> TypedFunctionCall(st.toolCalls[i])])
             ELSE Undefined],
      finish_reason |-> FinishReasonOrStop(st.stopReason)]>>),
   usage |->
     [prompt_tokens |-> InputTokensOrZero(st.usage),
      completion_tokens |-> OutputTokensOrZero(st.usage),
      total_tokens |-> InputTokensOrZero(st.usage) + OutputTokensOrZero(st.usage)]]

----------------------------------------------------------------------------
\* The state machine

\* rawToolCallEvents.map(event => `data: ${JSON.stringify(event)}\n\n`)
getRawToolCallEvents(st) ==
  Arr([i \in DOMAIN st.rawToolCallEvents |-> SSEFrame(st.rawToolCallEvents[i])])

\* The constructor of either adapter.
InitialState ==
  [responseId |-> Str(<<>>), model |-> Str(<<>>), text |-> Str(<<>>),
   toolCalls |-> <<>>, rawToolCallEvents |-> <<>>,
   usage |-> Null, stopReason |-> Null,
   timing |-> [startTime |-> Num(0), firstChunkTime |-> Null]]

\* No client stream exists.
\* No browser stream context is under observation.
NoBrowser ==
  /\ browserSubscriptions = <<>>
  /\ intervals = {}
  /\ handlers = <<>>
  /\ captures = {}
  /\ readyState = <<>>
  /\ wss = FALSE
  /\ lastOrphanCleanupTime = <<>>
  /\ lastCleanupCall = <<>>
  /\ lastRequest = <<>>
  /\ stops = 0

\* No database is under observation.
NoAccess ==
  /\ agentsTable = <<>>
  /\ teamMemberTable = {}
  /\ agentTeamTable = {}

NoClient ==
  /\ body = Undefined
  /\ consumed = 0
  /\ kept = <<>>
  /\ buffer = <<>>
  /\ lines = <<>>
  /\ yielded = <<>>
  /\ logged = <<>>
  /\ pc = "none"
  /\ reader = "none"
  /\ releases = 0

\* No request adapter is under observation.
NoRequest ==
  /\ requestProvider = "none"
  /\ request = Undefined
  /\ modifiedModel = Null
  /\ toolResultUpdates = <<>>

\* No response adapter is under observation.
NoResponse ==
  /\ responseProvider = "none"
  /\ wrappedResponse = Undefined

\* No pair of concurrent stream adapters exists.
NoPair ==
  /\ adapters = <<>>
  /\ toolCallIndexMaps = <<>>

Init ==
  /\ provider \in Providers
  /\ state = InitialState
  /\ currentToolCallIndices = <<>>
  /\ result = Undefined
  /\ now = 1
  /\ chunks = <<>>
  /\ ended = FALSE
  /\ endSSE = Undefined
  /\ response = Undefined
  /\ rawToolCallFrames = Undefined
  /\ returned = Undefined
  /\ NoPair
  /\ NoRequest
  /\ NoResponse
  /\ NoClient
  /\ NoBrowser
  /\ NoAccess

Applied(r) ==
  /\ state' = r.state
  /\ currentToolCallIndices' = r.indices
  /\ result' = r.result

\* The gateway feeds the next upstream chunk to a MiniMax stream adapter.
MinimaxChunk ==
  /\ provider = "minimax"
  /\ ~ended
  /\ Len(chunks) < MaxChunks
  /\ \E chunk \in Chunks :
       /\ Applied(MinimaxProcessChunk(state, currentToolCallIndices, chunk, now))
       /\ chunks' = Append(chunks, chunk)
  /\ now' = now + 1
  /\ UNCHANGED <<provider, ended, endSSE, response, rawToolCallFrames>>
  /\ UNCHANGED <<returned, pairVars, requestVars, responseVars, clientVars, browserVars, accessVars>>

\* The gateway feeds the next upstream chunk to a Mistral stream adapter.
MistralChunk ==
  /\ provider = "mistral"
  /\ ~ended
  /\ Len(chunks) < MaxChunks
  /\ \E chunk \in Chunks :
       /\ Applied(MistralProcessChunk(state, currentToolCallIndices, chunk, now))
       /\ chunks' = Append(chunks, chunk)
  /\ now' = now + 1
  /\ UNCHANGED <<provider, ended, endSSE, response, rawToolCallFrames>>
  /\ UNCHANGED <<returned, pairVars, requestVars, responseVars, clientVars, browserVars, accessVars>>

\* The upstream stream is over: the gateway asks the adapter for the end
\* frames and for the complete response.
EndStream ==
  /\ ~ended
  /\ ended' = TRUE
  /\ endSSE' = formatEndSSE(state, now)
  /\ response' = toProviderResponse(state, now)
  /\ now' = now + 1
  /\ UNCHANGED <<provider, state, currentToolCallIndices, result, chunks,
                 rawToolCallFrames>>
  /\ UNCHANGED <<returned, pairVars, requestVars, responseVars, clientVars, browserVars, accessVars>>

\* After the stream the gateway asks for the buffered tool-call chunks, to
\* replay them to the client.
GetRawToolCallEvents ==
  /\ ended
  /\ rawToolCallFrames' = getRawToolCallEvents(state)
  /\ UNCHANGED <<provider, state, currentToolCallIndices, result, now, chunks,
                 ended, endSSE, response>>
  /\ UNCHANGED <<returned, pairVars, requestVars, responseVars, clientVars, browserVars, accessVars>>

Next == MinimaxChunk \/ MistralChunk \/ EndStream \/ GetRawToolCallEvents

Spec == Init /\ [][Next]_vars

----------------------------------------------------------------------------
\* Two stream adapters alive at the same time. JavaScript runs one
\* processChunk call to completion before the next starts, so the calls of
\* the two streams interleave call by call.

MaxPairChunks == 4

Instances == {1, 2}

\* The chunks the two streams receive.
PairChunks ==
  { Chunk(Arr(<<Choice(Delta(Undefined, Undefined, Arr(<<f>>)), Null)>>), Undefined) :
      f \in { ToolCallDelta(0, Str(<<"call_a">>), Function(Str(<<"read_file">>), Str(<<>>))),
              ToolCallDelta(0, Undefined, Function(Undefined, Str(<<"{">>))),
              ToolCallDelta(1, Str(<<"call_b">>), Function(Str(<<"list">>), Str(<<"{">>))) } }
  \cup
  { Chunk(Arr(<<Choice(Delta(Undefined, Str(<<"Hello">>), Undefined), Null)>>), Undefined),
    Chunk(Arr(<<Choice(EmptyDelta, Str(<<"stop">>))>>), Usage(Num(1), Num(2))) }

\* Mutant of NewToolCallIndexMap: one Map shared by every instance, as a
\* static field would be.
SharedToolCallIndexMap(i) == 1

\* `private currentToolCallIndices = new Map<number, number>()`: the field
\* initializer runs once per instance, instance i gets the Map object i.
NewToolCallIndexMap(i) == i

\* new MinimaxStreamAdapter() / new MistralStreamAdapter()
NewStreamAdapter(p, i) ==
  [provider |-> p, state |-> InitialState,
   currentToolCallIndices |-> NewToolCallIndexMap(i), chunks |-> <<>>]

\* No single stream adapter is under observation.
NoStream ==
  /\ provider = "none"
  /\ state = Undefined
  /\ currentToolCallIndices = <<>>
  /\ result = Undefined
  /\ chunks = <<>>
  /\ ended = FALSE
  /\ endSSE = Undefined
  /\ response = Undefined
  /\ rawToolCallFrames = Undefined

InitPair ==
  /\ \E ps \in [Instances -> Providers] :
       adapters = [i \in Instances |-> NewStreamAdapter(ps[i], i)]
  /\ toolCallIndexMaps = [m \in Instances |-> <<>>]
  /\ now = 1
  /\ returned = Undefined
  /\ NoStream
  /\ NoRequest
  /\ NoResponse
  /\ NoClient
  /\ NoBrowser
  /\ NoAccess

PairApplied(i, chunk, r) ==
  /\ adapters' = [adapters EXCEPT ![i].state = r.state,
                                   ![i].chunks = Append(@, chunk)]
  /\ toolCallIndexMaps' =
       [toolCallIndexMaps EXCEPT ![adapters[i].currentToolCallIndices] = r.indices]

\* One of the two streams, a MiniMax one, receives its next chunk.
PairMinimaxChunk ==
  /\ Len(adapters[1].chunks) + Len(adapters[2].chunks) < MaxPairChunks
  /\ \E i \in Instances, chunk \in PairChunks :
       /\ adapters[i].provider = "minimax"
       /\ PairApplied(i, chunk,
            MinimaxProcessChunk(adapters[i].state,
                                toolCallIndexMaps[adapters[i].currentToolCallIndices],
                                chunk, now))
  /\ now' = now + 1
  /\ UNCHANGED <<returned, streamVars, requestVars, responseVars, clientVars, browserVars, accessVars>>

\* One of the two streams, a Mistral one, receives its next chunk.
PairMistralChunk ==
  /\ Len(adapters[1].chunks) + Len(adapters[2].chunks) < MaxPairChunks
  /\ \E i \in Instances, chunk \in PairChunks :
       /\ adapters[i].provider = "mistral"
       /\ PairApplied(i, chunk,
            MistralProcessChunk(adapters[i].state,
                                toolCallIndexMaps[adapters[i].currentToolCallIndices],
                                chunk, now))
  /\ now' = now + 1
  /\ UNCHANGED <<returned, streamVars, requestVars, responseVars, clientVars, browserVars, accessVars>>

NextPair == PairMinimaxChunk \/ PairMistralChunk

SpecPair == InitPair /\ [][NextPair]_vars

----------------------------------------------------------------------------
\* Provider requests (MinimaxRequest, MistralRequest)

ToolCall(id, name) ==
  [id |-> Str(<<id>>), type |-> "function",
   function |-> Function(Str(name), Str(<<"{}">>))]

Message(role, content, tool_call_id, tool_calls) ==
  [role |-> role, content |-> content, tool_call_id |-> tool_call_id,
   tool_calls |-> tool_calls]

\* Tool-result contents: a JSON array of rows, the same array wrapped once
\* more in a text block, a JSON array of arrays and a JSON string of one
\* accented letter; "42" is a JSON number, "done" is not JSON.
JsonRows == Str(<<"[{\"a\":1},{\"a\":2}]">>)
WrappedRows == Str(<<"[{\"type\":\"text\",\"text\":\"">> \o JsonRows.v \o <<"\"}]">>)
NestedRows == Str(<<"[[1,2],[3,4]]">>)
AccentedText == Str(<<"\"", "é", "\"">>)

\* The contents JSON.parse accepts.
JSONTexts == {JsonRows, WrappedRows, Str(<<"42">>), NestedRows, AccentedText}

\* The requests an adapter is constructed with. Their message lists: a
\* plain tool round trip; call_1 named twice, the second time after its
\* tool message; a tool message no assistant message names; a tool call
\* with the empty string for a name; no tool message at all; two tool
\* results of one assistant message with a user message between them; a
\* tool result holding an accented letter.
Requests ==
  LET user == Message("user", Str(<<"hi">>), Undefined, Undefined)
      assistant(tool_calls) == Message("assistant", Null, Undefined, tool_calls)
      tool(id, content) == Message("tool", content, Str(<<id>>), Undefined)
      readFileTool ==
        [type |-> "function",
         function |-> [name |-> Str(<<"read_file">>), description |-> Str(<<"a tool">>),
                       parameters |-> Str(<<"{schema}">>)]]
      req(messages, stream, tools) ==
        [model |-> Str(<<"m1">>), messages |-> messages, stream |-> stream,
         tools |-> tools]
  IN { req(<<user, assistant(Arr(<<ToolCall("call_1", <<"read_file">>)>>)),
             tool("call_1", JsonRows)>>,
           Bool(TRUE), Arr(<<readFileTool>>)),
       req(<<assistant(Arr(<<ToolCall("call_1", <<"read_file">>)>>)),
             tool("call_1", Str(<<"done">>)),
             assistant(Arr(<<ToolCall("call_2", <<"read_file">>),
                             ToolCall("call_1", <<"list">>)>>)),
             tool("call_2", Str(<<"42">>))>>,
           Undefined, Arr(<<>>)),
       req(<<assistant(Undefined), tool("call_2", Str(<<"done">>))>>,
           Bool(FALSE), Undefined),
       req(<<assistant(Arr(<<ToolCall("call_1", <<>>)>>)),
             tool("call_1", WrappedRows), user>>,
           Undefined, Undefined),
       req(<<user>>, Bool(TRUE), Undefined),
       req(<<assistant(Arr(<<ToolCall("call_1", <<"list">>),
                             ToolCall("call_2", <<"read_file">>)>>)),
             tool("call_1", NestedRows), user, tool("call_2", JsonRows)>>,
           Undefined, Undefined),
       req(<<assistant(Arr(<<ToolCall("call_1", <<"read_file">>)>>)),
             tool("call_1", AccentedText)>>,
           Undefined, Undefined) }

----------------------------------------------------------------------------
\* Request adapter: an adapter `a` is its three private fields, request,
\* modifiedModel and toolResultUpdates.

\* JSON.parse(text): the parsed value, kept as the text it was parsed from;
\* SyntaxError stands for the exception on a text that is not JSON.
JSONparse(text) ==
  IF text \in JSONTexts THEN [tag |-> "json", of |-> text] ELSE [tag |-> "SyntaxError"]

\* try { x = JSON.parse(content) } catch { x = content }, for string content
ParsedOrRaw(content) ==
  IF content.tag = "string" /\ JSONparse(content).tag = "json"
    THEN JSONparse(content)
    ELSE content

\* this.modifiedModel ?? this.request.model
getModel(a) == Coalesce(a.modifiedModel, a.request.model)

\* The inner loop of findToolNameInMessages: the name of the first tool call
\* of the message with this id (MiniMax: and of type "function"), Undefined
\* when the loop ends without returning.
RECURSIVE NameInToolCalls(_, _, _)
NameInToolCalls(p, toolCalls, toolCallId) ==
  IF toolCalls = <<>>
    THEN Undefined
    ELSE LET toolCall == Head(toolCalls)
         IN IF /\ toolCall.id = toolCallId
               /\ (p = "minimax" => toolCall.type = "function")
              THEN toolCall.function.name
              ELSE NameInToolCalls(p, Tail(toolCalls), toolCallId)

\* Mutant of ScanBackward: the scan starts at the first message.
RECURSIVE ScanForward(_, _, _, _)
ScanForward(p, messages, toolCallId, i) ==
  LET j == Len(messages) + 1 - i
  IN IF i = 0
       THEN Null
       ELSE LET message == messages[j]
                found == IF message.role = "assistant" /\ Truthy(message.tool_calls)
                           THEN NameInToolCalls(p, message.tool_calls.v, toolCallId)
                           ELSE Undefined
            IN IF found # Undefined
                 THEN found
                 ELSE ScanForward(p, messages, toolCallId, i - 1)

\* for (let i = messages.length - 1; i >= 0; i--), i being one-based here
RECURSIVE ScanBackward(_, _, _, _)
ScanBackward(p, messages, toolCallId, i) ==
  IF i = 0
    THEN Null
    ELSE LET message == messages[i]
             found == IF message.role = "assistant" /\ Truthy(message.tool_calls)
                        THEN NameInToolCalls(p, message.tool_calls.v, toolCallId)
                        ELSE Undefined
         IN IF found # Undefined
              THEN found
              ELSE ScanBackward(p, messages, toolCallId, i - 1)

findToolNameInMessages(p, messages, toolCallId) ==
  ScanBackward(p, messages, toolCallId, Len(messages))

\* getToolResults(): one result per tool message, in message order
getToolResults(p, a) ==
  LET messages == a.request.messages
      tools == SelectSeq(messages, LAMBDA m : m.role = "tool")
  IN Arr([k \in DOMAIN tools |->
       [id |-> tools[k].tool_call_id,
        name |-> Coalesce(findToolNameInMessages(p, messages, tools[k].tool_call_id),
                          Str(<<"unknown">>)),
        content |-> ParsedOrRaw(tools[k].content),
        isError |-> FALSE]])

\* One iteration of the loop of toCommonFormat.
CommonMessage(p, messages, message) ==
  LET toolName == IF message.role = "tool"
                    THEN findToolNameInMessages(p, messages, message.tool_call_id)
                    ELSE Null
  IN [role |-> message.role,
      toolCalls |-> IF message.role = "tool" /\ Truthy(toolName)
                      THEN Arr(<<[id |-> message.tool_call_id, name |-> toolName,
                                  content |-> ParsedOrRaw(message.content),
                                  isError |-> FALSE]>>)
                      ELSE Undefined]

toCommonFormat(p, messages) ==
  Arr([i \in DOMAIN messages |-> CommonMessage(p, messages, messages[i])])

\* getTools(): the function tools of the request, [] without a tools list
getTools(a) ==
  IF ~Truthy(a.request.tools)
    THEN Arr(<<>>)
    ELSE LET fs == SelectSeq(a.request.tools.v, LAMBDA t : t.type = "function")
         IN Arr([k \in DOMAIN fs |->
                  [name |-> fs[k].function.name,
                   description |-> fs[k].function.description,
                   inputSchema |-> fs[k].function.parameters]])

\* Mutant of setModel: the model is written into the wrapped request.
setModelInPlace(a, model) == [a EXCEPT !.request.model = model]

\* this.modifiedModel = model
setModel(a, model) == [a EXCEPT !.modifiedModel = model]

\* The callback of messages.map in applyUpdates; updates[id] is undefined
\* when the record has no such key.
UpdatedMessage(message, updates) ==
  IF /\ message.role = "tool"
     /\ message.tool_call_id \in DOMAIN updates
     /\ Truthy(updates[message.tool_call_id])
    THEN [message EXCEPT !.content = updates[message.tool_call_id]]
    ELSE message

applyUpdates(messages, updates) ==
  IF DOMAIN updates = {}
    THEN messages
    ELSE [i \in DOMAIN messages |-> UpdatedMessage(messages[i], updates)]

\* Mutant of toProviderRequest: the queued updates are dropped once they
\* have been serialized.
toProviderRequestFlushing(a) ==
  LET messages == IF DOMAIN a.toolResultUpdates # {}
                    THEN applyUpdates(a.request.messages, a.toolResultUpdates)
                    ELSE a.request.messages
  IN [a |-> [a EXCEPT !.toolResultUpdates = <<>>],
      value |-> [a.request EXCEPT !.model = getModel(a), !.messages = messages]]

\* toProviderRequest(): { ...this.request, model: this.getModel(), messages };
\* no field of the adapter is assigned. `a` is the adapter after the call,
\* `value` what the call returns.
toProviderRequest(a) ==
  LET messages == IF DOMAIN a.toolResultUpdates # {}
                    THEN applyUpdates(a.request.messages, a.toolResultUpdates)
                    ELSE a.request.messages
  IN [a |-> a,
      value |-> [a.request EXCEPT !.model = getModel(a), !.messages = messages]]

----------------------------------------------------------------------------
\* Tool-result compression (convertToolResultsToToon)

\* unwrapToolContent(content): a content wrapped in a text block is
\* replaced by the text inside, any other content is returned as it is.
unwrapToolContent(content) ==
  IF content = WrappedRows THEN JsonRows ELSE content

\* Mutant of toonEncode: the array of arrays is encoded as the JSON of the
\* rows.
toonEncodeToJson(parsed) ==
  IF parsed.of = NestedRows THEN JsonRows ELSE Str(<<"42">>)

\* encode() of @toon-format/toon on the parsed contents: a number is
\* written as in JSON, a string without its quotes, uniform rows as a
\* table, an array of arrays as a list of inline arrays.
toonEncode(parsed) ==
  CASE parsed.of = Str(<<"42">>) -> Str(<<"42">>)
    [] parsed.of = AccentedText -> Str(<<"é">>)
    [] parsed.of = JsonRows -> Str(<<"[2]{a}:", "\n", "  1", "\n", "  2">>)
    [] parsed.of = WrappedRows ->
         Str(<<"[1]{type,text}:", "\n", "  text,\"">> \o JsonRows.v \o <<"\"">>)
    [] parsed.of = NestedRows ->
         Str(<<"[2]:", "\n", "  - [2]: 1,2", "\n", "  - [2]: 3,4">>)

\* s.length, the tokens of the model's strings being JavaScript strings
RECURSIVE Length(_)
Length(tokens) ==
  IF tokens = <<>> THEN 0 ELSE Len(Head(tokens)) + Length(Tail(tokens))

RECURSIVE Sum(_)
Sum(numbers) == IF numbers = <<>> THEN 0 ELSE Head(numbers) + Sum(Tail(numbers))

\* tokenizer.countTokens([{ role: "user", content }]): the tokenizer is
\* outside this module; one token per four characters, rounded up.
countTokens(content) == (Length(content.v) + 3) \div 4

\* The encoder and the tokenizer are outside this module. An encoder `enc`
\* is what they do on the contents of a request: enc.compressed are the
\* contents for which the encoder reports wasCompressed, enc.throws those
\* on which the encoder or the tokenizer throws. The encoder reports
\* wasCompressed only for an encoding of fewer tokens than the original.
Encoders ==
  [compressed : SUBSET { text \in JSONTexts :
                           countTokens(toonEncode(JSONparse(text))) < countTokens(text) },
   throws : {{}, {JsonRows}, {NestedRows}}]

\* MiniMax: the content the callback of messages.map works on;
\* JSON.stringify of a content that is not a string
OriginalContent(message) ==
  IF message.content.tag = "string"
    THEN message.content
    ELSE Str(<<message.content>>)

\* MiniMax: the try block reaches `return { ...message, content }`: the
\* content parses, nothing throws and the encoder reports wasCompressed.
MinimaxSubstituted(message, enc) ==
  /\ message.role = "tool"
  /\ JSONparse(OriginalContent(message)).tag = "json"
  /\ OriginalContent(message) \notin enc.throws
  /\ OriginalContent(message) \in enc.compressed

MinimaxToonMessage(message, enc) ==
  IF MinimaxSubstituted(message, enc)
    THEN [message EXCEPT !.content = toonEncode(JSONparse(OriginalContent(message)))]
    ELSE message

\* Mutant of MinimaxSettled: compressedBytes is assigned, not added to.
MinimaxSettledAssigning(stats, message, enc) ==
  IF MinimaxSubstituted(message, enc)
    THEN [stats EXCEPT
            !.compressedCount = @ + 1,
            !.compressedBytes = Length(MinimaxToonMessage(message, enc).content.v)]
    ELSE [stats EXCEPT !.compressedBytes = Length(OriginalContent(message).v)]

\* MiniMax: the stats once the callback of a tool message has settled,
\* through the return inside the try block or the one after it.
MinimaxSettled(stats, message, enc) ==
  IF MinimaxSubstituted(message, enc)
    THEN [stats EXCEPT
            !.compressedCount = @ + 1,
            !.compressedBytes = @ + Length(MinimaxToonMessage(message, enc).content.v)]
    ELSE [stats EXCEPT !.compressedBytes = @ + Length(OriginalContent(message).v)]

\* The orders in which the callbacks of the tool messages can settle under
\* Promise.all: the sequences naming each tool message once.
SettlingOrders(messages) ==
  LET tools == { i \in DOMAIN messages : messages[i].role = "tool" }
  IN { order \in [1..Cardinality(tools) -> tools] :
         \A a, b \in DOMAIN order : a # b => order[a] # order[b] }

RECURSIVE MinimaxSettledInOrder(_, _, _, _)
MinimaxSettledInOrder(stats, messages, enc, order) ==
  IF order = <<>>
    THEN stats
    ELSE MinimaxSettledInOrder(MinimaxSettled(stats, messages[Head(order)], enc),
                               messages, enc, Tail(order))

\* MiniMax: every callback adds to originalBytes before its first await,
\* in message order; the rest of the stats is written as the callbacks
\* settle, in the order `order`.
MinimaxConvertToolResultsToToon(messages, model, enc, order) ==
  LET started ==
        [originalBytes |->
           Sum([i \in DOMAIN messages |->
                  IF messages[i].role = "tool"
                    THEN Length(OriginalContent(messages[i]).v) ELSE 0]),
         compressedBytes |-> 0, removedBytes |-> 0,
         compressedCount |-> 0, removedCount |-> 0]
  IN [messages |-> [i \in DOMAIN messages |-> MinimaxToonMessage(messages[i], enc)],
      stats |-> MinimaxSettledInOrder(started, messages, enc, order)]

\* Mistral: the try block reaches its return: the content is a string that
\* parses as JSON once unwrapped, and nothing throws.
MistralSubstituted(message, enc) ==
  /\ message.role = "tool"
  /\ message.content.tag = "string"
  /\ JSONparse(unwrapToolContent(message.content)).tag = "json"
  /\ unwrapToolContent(message.content) \notin enc.throws

\* Mutant of MistralToonMessage: the catch block returns the message
\* without its content.
MistralToonMessageBlanking(message, enc) ==
  IF MistralSubstituted(message, enc)
    THEN [message EXCEPT
            !.content = toonEncode(JSONparse(unwrapToolContent(message.content)))]
    ELSE IF message.role = "tool" THEN [message EXCEPT !.content = Str(<<>>)]
    ELSE message

MistralToonMessage(message, enc) ==
  IF MistralSubstituted(message, enc)
    THEN [message EXCEPT
            !.content = toonEncode(JSONparse(unwrapToolContent(message.content)))]
    ELSE message

\* Mistral: price is TokenPriceModel.findByModel(model).pricePerMillionInput,
\* Null when the model has no price; toonCostSavings is kept in millionths.
MistralConvertToolResultsToToon(messages, model, price, enc) ==
  LET mapped == [i \in DOMAIN messages |-> MistralToonMessage(messages[i], enc)]
      counted == { i \in DOMAIN messages : MistralSubstituted(messages[i], enc) }
      totalTokensBefore ==
        Sum([i \in DOMAIN messages |->
               IF i \in counted
                 THEN countTokens(unwrapToolContent(messages[i].content)) ELSE 0])
      totalTokensAfter ==
        Sum([i \in DOMAIN messages |->
               IF i \in counted THEN countTokens(mapped[i].content) ELSE 0])
      tokensSaved == totalTokensBefore - totalTokensAfter
  IN [messages |-> mapped,
      stats |->
        [toonTokensBefore |-> IF counted # {} THEN Num(totalTokensBefore) ELSE Null,
         toonTokensAfter |-> IF counted # {} THEN Num(totalTokensAfter) ELSE Null,
         toonCostSavings |->
           IF counted # {} /\ tokensSaved > 0 /\ Truthy(price)
             THEN Num(tokensSaved * price.v)
             ELSE Null]]

----------------------------------------------------------------------------
\* Request adapter: construction and calls

InitRequest ==
  /\ requestProvider \in Providers
  /\ request \in Requests
  /\ modifiedModel = Null
  /\ toolResultUpdates = <<>>
  /\ returned = [op |-> "constructor", args |-> <<>>, value |-> Undefined]
  /\ now = 1
  /\ NoStream
  /\ NoPair
  /\ NoResponse
  /\ NoClient
  /\ NoBrowser
  /\ NoAccess

\* The adapter under observation.
Adapter ==
  [request |-> request, modifiedModel |-> modifiedModel,
   toolResultUpdates |-> toolResultUpdates]

\* A method was called on the adapter: `a` is the adapter after the call,
\* `value` what the call returned.
RequestCall(op, args, a, value) ==
  /\ request' = a.request
  /\ modifiedModel' = a.modifiedModel
  /\ toolResultUpdates' = a.toolResultUpdates
  /\ returned' = [op |-> op, args |-> args, value |-> value]
  /\ UNCHANGED <<requestProvider, now, streamVars, pairVars, responseVars, clientVars, browserVars, accessVars>>

GetModel ==
  /\ requestProvider \in Providers
  /\ RequestCall("getModel", <<>>, Adapter, getModel(Adapter))

\* isStreaming(): this.request.stream === true
IsStreaming ==
  /\ requestProvider \in Providers
  /\ RequestCall("isStreaming", <<>>, Adapter, Bool(request.stream = Bool(TRUE)))

\* getMessages(): this.toCommonFormat(this.request.messages)
GetMessages ==
  /\ requestProvider \in Providers
  /\ RequestCall("getMessages", <<>>, Adapter,
                 toCommonFormat(requestProvider, request.messages))

GetToolResults ==
  /\ requestProvider \in Providers
  /\ RequestCall("getToolResults", <<>>, Adapter,
                 getToolResults(requestProvider, Adapter))

GetTools ==
  /\ requestProvider \in Providers
  /\ RequestCall("getTools", <<>>, Adapter, getTools(Adapter))

\* hasTools(): (this.request.tools?.length ?? 0) > 0
HasTools ==
  /\ requestProvider \in Providers
  /\ RequestCall("hasTools", <<>>, Adapter,
                 Bool((IF IsNullish(request.tools) THEN 0 ELSE Len(request.tools.v)) > 0))

SetModel ==
  /\ requestProvider \in Providers
  /\ \E model \in {Str(<<>>), Str(<<"m2">>)} :
       RequestCall("setModel", <<model>>, setModel(Adapter, model), Undefined)

\* updateToolResult(): this.toolResultUpdates[toolCallId] = newContent
UpdateToolResult ==
  /\ requestProvider \in Providers
  /\ \E toolCallId \in {Str(<<"call_1">>), Str(<<"call_2">>)},
        newContent \in {Str(<<>>), Str(<<"redacted">>)} :
       RequestCall("updateToolResult", <<toolCallId, newContent>>,
                   [Adapter EXCEPT !.toolResultUpdates = (toolCallId :> newContent) @@ @],
                   Undefined)

\* applyToolResultUpdates(): Object.assign(this.toolResultUpdates, updates)
ApplyToolResultUpdates ==
  /\ requestProvider \in Providers
  /\ \E updates \in {<<>>, Str(<<"call_1">>) :> Str(<<"trimmed">>),
                     (Str(<<"call_1">>) :> Str(<<>>))
                       @@ (Str(<<"call_2">>) :> Str(<<"trimmed">>))} :
       RequestCall("applyToolResultUpdates", <<[tag |-> "record", v |-> updates]>>,
                   [Adapter EXCEPT !.toolResultUpdates = updates @@ @],
                   Undefined)

\* MiniMax applyToonCompression: this.request = { ...this.request, messages },
\* the stats are returned.
MinimaxApplyToon ==
  /\ requestProvider = "minimax"
  /\ \E model \in {Str(<<"m1">>)}, enc \in Encoders,
        order \in SettlingOrders(request.messages) :
       LET c == MinimaxConvertToolResultsToToon(request.messages, model, enc, order)
       IN RequestCall("applyToonCompression", <<model, [tag |-> "encoder", v |-> enc]>>,
                      [Adapter EXCEPT !.request.messages = c.messages], c.stats)

\* Mistral applyToonCompression: this.request = { ...this.request, messages },
\* tokensBefore, tokensAfter and costSavings are returned.
MistralApplyToon ==
  /\ requestProvider = "mistral"
  /\ \E model \in {Str(<<"m1">>)}, price \in {Null, Num(3)}, enc \in Encoders :
       LET c == MistralConvertToolResultsToToon(request.messages, model, price, enc)
       IN RequestCall("applyToonCompression", <<model, [tag |-> "encoder", v |-> enc]>>,
                      [Adapter EXCEPT !.request.messages = c.messages],
                      [tokensBefore |-> c.stats.toonTokensBefore,
                       tokensAfter |-> c.stats.toonTokensAfter,
                       costSavings |-> c.stats.toonCostSavings])

ToProviderRequest ==
  /\ requestProvider \in Providers
  /\ RequestCall("toProviderRequest", <<>>,
                 toProviderRequest(Adapter).a, toProviderRequest(Adapter).value)

NextRequest ==
  \/ GetModel \/ IsStreaming \/ GetMessages \/ GetToolResults \/ GetTools
  \/ HasTools \/ SetModel \/ UpdateToolResult \/ ApplyToolResultUpdates
  \/ MinimaxApplyToon \/ MistralApplyToon \/ ToProviderRequest

SpecRequest == InitRequest /\ [][NextRequest]_vars

----------------------------------------------------------------------------
\* Upstream responses (MinimaxResponse, MistralResponse) and the response
\* adapter

ResponseMessage(content, tool_calls) ==
  [role |-> "assistant", content |-> content, tool_calls |-> tool_calls]

ResponseChoice(index, message, finish_reason) ==
  [index |-> index, message |-> message, finish_reason |-> finish_reason]

\* The responses an adapter is constructed with. choices: none, a text
\* answer, a tool call, a text with two tool calls cut short by the length
\* limit; usage: absent, complete, and with one count or the other left out.
Responses ==
  { [id |-> Str(<<"resp-1">>), model |-> Str(<<"model-1">>),
     choices |-> Arr(choices), usage |-> usage] :
      choices \in
        { <<>>,
          <<ResponseChoice(Num(0), ResponseMessage(Str(<<"Hello">>), Undefined),
                           Str(<<"stop">>))>>,
          <<ResponseChoice(Num(0),
              ResponseMessage(Null, Arr(<<ToolCall("call_1", <<"read_file">>)>>)),
              Str(<<"tool_calls">>))>>,
          <<ResponseChoice(Num(0),
              ResponseMessage(Str(<<>>), Arr(<<ToolCall("call_1", <<"read_file">>),
                                               ToolCall("call_2", <<"list">>)>>)),
              Str(<<"length">>))>> },
      usage \in
        { Undefined, Usage(Num(3), Num(5)), Usage(Num(3), Undefined),
          Usage(Undefined, Num(5)), Usage(Num(0), Num(0)) } }

\* Mutant of getUsage: the counts are passed on as they come.
getUsageRaw(resp) ==
  [inputTokens |-> IF IsNullish(resp.usage) THEN Undefined ELSE resp.usage.prompt_tokens,
   outputTokens |->
     IF IsNullish(resp.usage) THEN Undefined ELSE resp.usage.completion_tokens]

\* { inputTokens: usage?.prompt_tokens ?? 0, outputTokens: usage?.completion_tokens ?? 0 }
getUsage(resp) ==
  [inputTokens |->
     Coalesce(IF IsNullish(resp.usage) THEN Undefined ELSE resp.usage.prompt_tokens,
              Num(0)),
   outputTokens |->
     Coalesce(IF IsNullish(resp.usage) THEN Undefined ELSE resp.usage.completion_tokens,
              Num(0))]

\* { ...this.response.choices[0] }: the own properties of the first choice,
\* none when there is no choice
SpreadFirstChoice(resp) ==
  IF resp.choices.v = <<>>
    THEN ResponseChoice(Undefined, Undefined, Undefined)
    ELSE resp.choices.v[1]

\* Mutant of toRefusalResponse: the message of the wrapped response is
\* spread into the new one.
toRefusalResponseKeepingMessage(resp, refusalMessage, contentMessage) ==
  [resp EXCEPT !.choices =
     Arr(<<[SpreadFirstChoice(resp) EXCEPT
              !.message = IF resp.choices.v = <<>>
                            THEN ResponseMessage(contentMessage, Undefined)
                            ELSE [@ EXCEPT !.content = contentMessage],
              !.finish_reason = Str(<<"stop">>)]>>)]

\* toRefusalResponse: { ...this.response, choices: [{ ...choices[0],
\* message: { role: "assistant", content: contentMessage }, finish_reason:
\* "stop" }] }; Mistral writes tool_calls: undefined into the message.
toRefusalResponse(resp, refusalMessage, contentMessage) ==
  [resp EXCEPT !.choices =
     Arr(<<[SpreadFirstChoice(resp) EXCEPT
              !.message = ResponseMessage(contentMessage, Undefined),
              !.finish_reason = Str(<<"stop">>)]>>)]

----------------------------------------------------------------------------
\* Response adapter: construction and calls; the response of a stream is
\* materialized by the stream adapter.

MaxStreamLen == 2

\* The streams whose response is materialized: up to MaxStreamLen chunks.
RECURSIVE Streams(_)
Streams(n) ==
  IF n = 0
    THEN {<<>>}
    ELSE Streams(n - 1) \cup
         { Append(cs, c) :
             cs \in Streams(n - 1),
             c \in { Chunk(Arr(<<Choice(Delta(Undefined, Str(<<"Hello">>), Undefined),
                                        Null)>>), Undefined),
                     Chunk(Arr(<<Choice(EmptyDelta, Str(<<"stop">>))>>),
                           Usage(Num(1), Num(2))),
                     Chunk(Arr(<<Choice(EmptyDelta, Str(<<"stop">>))>>),
                           Usage(Num(2), Undefined)),
                     Chunk(Arr(<<>>), Usage(Undefined, Num(1))) } }

\* The accumulator and index map of a stream adapter of class p after
\* processChunk was called on each chunk of cs, at time t.
RECURSIVE Accumulated(_, _, _, _)
Accumulated(p, cs, acc, t) ==
  IF cs = <<>>
    THEN acc
    ELSE LET r == IF p = "minimax"
                    THEN MinimaxProcessChunk(acc.state, acc.indices, Head(cs), t)
                    ELSE MistralProcessChunk(acc.state, acc.indices, Head(cs), t)
         IN Accumulated(p, Tail(cs), [state |-> r.state, indices |-> r.indices], t)

InitResponse ==
  /\ responseProvider \in Providers
  /\ wrappedResponse \in Responses
  /\ returned = [op |-> "constructor", args |-> <<>>, value |-> Undefined]
  /\ now = 1
  /\ NoStream
  /\ NoPair
  /\ NoRequest
  /\ NoClient
  /\ NoBrowser
  /\ NoAccess

\* A method was called; none of them assigns a field of the adapter.
ResponseCall(op, args, value) ==
  /\ returned' = [op |-> op, args |-> args, value |-> value]
  /\ UNCHANGED <<now, streamVars, pairVars, requestVars, responseVars, clientVars, browserVars, accessVars>>

GetUsage ==
  /\ responseProvider \in Providers
  /\ ResponseCall("getUsage", <<>>, getUsage(wrappedResponse))

\* The policy evaluator blocked read_file and handed over its two messages.
ToRefusalResponse ==
  /\ responseProvider \in Providers
  /\ \E refusalMessage \in { Str(<<"<refusal tool=\"read_file\">">>) },
        contentMessage \in
          { Str(<<"I tried to call ", "read_file", " but it was blocked by policy">>),
            Str(<<>>) } :
       ResponseCall("toRefusalResponse", <<refusalMessage, contentMessage>>,
                    toRefusalResponse(wrappedResponse, refusalMessage, contentMessage))

\* A stream of the same provider ends and its adapter materializes the
\* response.
StreamToProviderResponse ==
  /\ responseProvider \in Providers
  /\ \E cs \in Streams(MaxStreamLen) :
       ResponseCall("toProviderResponse", <<Arr(cs)>>,
                    toProviderResponse(
                      Accumulated(responseProvider, cs,
                                  [state |-> InitialState, indices |-> <<>>], 1).state,
                      1))

NextResponse == GetUsage \/ ToRefusalResponse \/ StreamToProviderResponse

SpecResponse == InitResponse /\ [][NextResponse]_vars

----------------------------------------------------------------------------
\* MinimaxClient.parseSSEStream: the async generator that reads the body of
\* the upstream response and yields the chunks of its data lines. Texts are
\* sequences of characters here, the body a sequence of bytes.

\* The texts JSON.parse accepts among the payloads of the upstream lines.
ChunkJSON == { <<"1">>, <<"2">>, <<"{", "}">>, <<"\"", "é", "\"">> }

\* The lines an upstream sends: a data line with its payload, the end
\* marker, a blank line, a comment; eol is the line terminator sent after
\* it, none for a body that ends inside its last line.
Line(kind, payload, eol) == [kind |-> kind, payload |-> payload, eol |-> eol]

DataPrefix == <<"d", "a", "t", "a", ":", " ">>

Rendered(line) ==
  (CASE line.kind = "data" -> DataPrefix \o line.payload
     [] line.kind = "done" -> DataPrefix \o <<"[", "D", "O", "N", "E", "]">>
     [] line.kind = "blank" -> <<>>
     [] line.kind = "comment" -> <<":", " ", "k">>) \o line.eol

\* The bytes of a text (UTF-8): the accented letter is sent as two bytes.
RECURSIVE Utf8(_)
Utf8(text) ==
  IF text = <<>>
    THEN <<>>
    ELSE (IF Head(text) = "é" THEN <<"C3", "A9">> ELSE <<Head(text)>>) \o Utf8(Tail(text))

RECURSIVE Flattened(_)
Flattened(ls) == IF ls = <<>> THEN <<>> ELSE Rendered(Head(ls)) \o Flattened(Tail(ls))

\* The bodies of the upstream responses, each by its lines: a malformed
\* payload between two chunks; a chunk with an accented letter, CRLF line
\* ends and the end marker; a comment, a payload cut short and a last line
\* without terminator; a malformed last line without terminator; a chunk
\* after the end marker; an empty body. A response may also have no body at all.
Bodies ==
  LET lf == <<"\n">>
      crlf == <<"\r", "\n">>
  IN { <<Line("data", <<"1">>, lf), Line("data", <<"x">>, lf), Line("data", <<"2">>, lf)>>,
       <<Line("data", <<"\"", "é", "\"">>, crlf), Line("blank", <<>>, crlf),
         Line("done", <<>>, crlf)>>,
       <<Line("comment", <<>>, lf), Line("data", <<"{">>, lf), Line("data", <<"2">>, <<>>)>>,
       <<Line("data", <<"{", "}">>, lf), Line("data", <<"1">>, <<" ">>)>>,
       <<Line("blank", <<>>, lf), Line("data", <<"{">>, <<>>)>>,
       <<Line("data", <<"1">>, lf), Line("done", <<>>, lf), Line("data", <<"2">>, lf)>>,
       <<>> }

\* decoder.decode(value, { stream: true }) on the bytes the decoder kept
\* from the last call followed by value: the text decoded, and the bytes of
\* an incomplete character, which the decoder keeps.
RECURSIVE decode(_)
decode(bytes) ==
  IF bytes = <<>>
    THEN [text |-> <<>>, kept |-> <<>>]
    ELSE IF Head(bytes) = "C3"
      THEN IF Len(bytes) = 1
             THEN [text |-> <<>>, kept |-> bytes]
             ELSE LET rest == decode(Tail(Tail(bytes)))
                  IN [text |-> <<"é">> \o rest.text, kept |-> rest.kept]
      ELSE LET rest == decode(Tail(bytes))
           IN [text |-> <<Head(bytes)>> \o rest.text, kept |-> rest.kept]

\* text.split("\n")
RECURSIVE split(_)
split(text) ==
  IF \A i \in DOMAIN text : text[i] # "\n"
    THEN <<text>>
    ELSE LET i == CHOOSE i \in DOMAIN text :
                    text[i] = "\n" /\ \A j \in 1..(i - 1) : text[j] # "\n"
         IN <<SubSeq(text, 1, i - 1)>> \o split(SubSeq(text, i + 1, Len(text)))

\* line.trim()
RECURSIVE trim(_)
trim(line) ==
  LET WhiteSpace == {" ", "\t", "\r", "\n"}
  IN IF line # <<>> /\ Head(line) \in WhiteSpace
       THEN trim(Tail(line))
       ELSE IF line # <<>> /\ line[Len(line)] \in WhiteSpace
         THEN trim(SubSeq(line, 1, Len(line) - 1))
         ELSE line

\* What the generator does with one line, in the loop over the lines of a
\* read and with the rest of the buffer after the last read: it yields the
\* chunk parsed from the payload of a data line, logs a warning for a
\* payload JSON.parse throws on, and skips every other line.
OfLine(line) ==
  LET trimmed == trim(line)
      jsonStr == SubSeq(trimmed, 7, Len(trimmed))
  IN IF trimmed = <<>> \/ trimmed = DataPrefix \o <<"[", "D", "O", "N", "E", "]">>
       THEN [tag |-> "skipped"]
       ELSE IF Len(trimmed) >= 6 /\ SubSeq(trimmed, 1, 6) = DataPrefix
         THEN IF jsonStr \in ChunkJSON
                THEN [tag |-> "chunk", chunk |-> [tag |-> "json", of |-> jsonStr]]
                ELSE [tag |-> "warned", line |-> trimmed]
         ELSE [tag |-> "skipped"]

\* Mutant of UntilYield: a payload JSON.parse throws on ends the loop over
\* the lines.
RECURSIVE UntilYieldAborting(_, _)
UntilYieldAborting(ls, lg) ==
  IF ls = <<>>
    THEN [chunk |-> Undefined, lines |-> <<>>, logged |-> lg]
    ELSE LET o == OfLine(Head(ls))
         IN IF o.tag = "chunk"
              THEN [chunk |-> o.chunk, lines |-> Tail(ls), logged |-> lg]
              ELSE IF o.tag = "warned"
                THEN [chunk |-> Undefined, lines |-> <<>>, logged |-> Append(lg, o.line)]
                ELSE UntilYieldAborting(Tail(ls), lg)

\* The generator runs over the lines ls until it yields: the chunk yielded,
\* Undefined when it reaches the end of ls without yielding; the lines left
\* after the yield; the warnings logged, added to those in lg.
RECURSIVE UntilYield(_, _)
UntilYield(ls, lg) ==
  IF ls = <<>>
    THEN [chunk |-> Undefined, lines |-> <<>>, logged |-> lg]
    ELSE LET o == OfLine(Head(ls))
         IN IF o.tag = "chunk"
              THEN [chunk |-> o.chunk, lines |-> Tail(ls), logged |-> lg]
              ELSE UntilYield(Tail(ls),
                              IF o.tag = "warned" THEN Append(lg, o.line) ELSE lg)

\* A response of the upstream arrives and chatCompletionsStream returns
\* the generator, which has not run yet.
InitClient ==
  /\ body \in {Null} \cup { [lines |-> ls, bytes |-> Utf8(Flattened(ls))] : ls \in Bodies }
  /\ consumed = 0
  /\ kept = <<>>
  /\ buffer = <<>>
  /\ lines = <<>>
  /\ yielded = <<>>
  /\ logged = <<>>
  /\ pc = "start"
  /\ reader = "none"
  /\ releases = 0
  /\ returned = Undefined
  /\ now = 1
  /\ NoStream
  /\ NoPair
  /\ NoRequest
  /\ NoResponse
  /\ NoBrowser
  /\ NoAccess

\* Mutant of Exit: the lock is released at the end of the body only.
ExitWithoutFinally(how) ==
  /\ pc' = how
  /\ reader' = IF how = "done" THEN "released" ELSE reader
  /\ releases' = IF how = "done" THEN releases + 1 ELSE releases

\* The generator leaves the try block: finally { reader.releaseLock() }
Exit(how) ==
  /\ pc' = how
  /\ reader' = "released"
  /\ releases' = releases + 1

\* The generator went over the lines ls and is suspended at a yield, or
\* reached their end and stands at `at`.
Visited(ls, at) ==
  LET r == UntilYield(ls, logged)
  IN /\ lines' = r.lines
     /\ logged' = r.logged
     /\ yielded' = IF r.chunk = Undefined THEN yielded ELSE Append(yielded, r.chunk)
     /\ pc' = IF r.chunk = Undefined THEN at ELSE "yielded"

\* The consumer asks for the first chunk: response.body?.getReader(), and
\* the throw for a response without body.
Start ==
  /\ pc = "start"
  /\ IF body = Null
       THEN pc' = "thrown" /\ reader' = reader
       ELSE pc' = "reading" /\ reader' = "locked"
  /\ UNCHANGED <<body, consumed, kept, buffer, lines, yielded, logged, releases>>
  /\ UNCHANGED <<now, returned, streamVars, pairVars, requestVars, responseVars, browserVars, accessVars>>

\* Mutant of Buffered: the text after the last line break is dropped.
BufferedWithoutRest(text) == [lines |-> split(text), buffer |-> <<>>]

\* lines = buffer.split("\n"); buffer = lines.pop() || ""
Buffered(text) ==
  LET ls == split(text)
  IN [lines |-> SubSeq(ls, 1, Len(ls) - 1), buffer |-> ls[Len(ls)]]

\* reader.read() delivers the next bytes of the body, however many, and
\* the generator goes over the lines they complete.
Read ==
  /\ pc = "reading"
  /\ \E n \in 1..(Len(body.bytes) - consumed) :
       LET d == decode(kept \o SubSeq(body.bytes, consumed + 1, consumed + n))
           b == Buffered(buffer \o d.text)
       IN /\ consumed' = consumed + n
          /\ kept' = d.kept
          /\ buffer' = b.buffer
          /\ Visited(b.lines, "reading")
  /\ UNCHANGED <<body, reader, releases>>
  /\ UNCHANGED <<now, returned, streamVars, pairVars, requestVars, responseVars, browserVars, accessVars>>

\* reader.read() reports the end of the body: the generator goes over what
\* is left in the buffer and, unless it yields, leaves.
ReadDone ==
  /\ pc = "reading"
  /\ consumed = Len(body.bytes)
  /\ LET r == UntilYield(<<buffer>>, logged)
     IN /\ logged' = r.logged
        /\ IF r.chunk = Undefined
             THEN Exit("done") /\ yielded' = yielded
             ELSE /\ yielded' = Append(yielded, r.chunk)
                  /\ pc' = "yieldedLast"
                  /\ UNCHANGED <<reader, releases>>
  /\ UNCHANGED <<body, consumed, kept, buffer, lines>>
  /\ UNCHANGED <<now, returned, streamVars, pairVars, requestVars, responseVars, browserVars, accessVars>>

\* reader.read() rejects: the connection to the upstream broke.
ReadError ==
  /\ pc = "reading"
  /\ Exit("thrown")
  /\ UNCHANGED <<body, consumed, kept, buffer, lines, yielded, logged>>
  /\ UNCHANGED <<now, returned, streamVars, pairVars, requestVars, responseVars, browserVars, accessVars>>

\* The consumer asks for the next chunk: the generator goes on after its
\* yield.
Resume ==
  /\ pc \in {"yielded", "yieldedLast"}
  /\ IF pc = "yielded"
       THEN Visited(lines, "reading") /\ UNCHANGED <<reader, releases>>
       ELSE Exit("done") /\ UNCHANGED <<lines, yielded, logged>>
  /\ UNCHANGED <<body, consumed, kept, buffer>>
  /\ UNCHANGED <<now, returned, streamVars, pairVars, requestVars, responseVars, browserVars, accessVars>>

\* The consumer gives the iteration up (the downstream client is gone):
\* return() on the generator suspended at a yield.
Abandon ==
  /\ pc \in {"yielded", "yieldedLast"}
  /\ Exit("returned")
  /\ UNCHANGED <<body, consumed, kept, buffer, lines, yielded, logged>>
  /\ UNCHANGED <<now, returned, streamVars, pairVars, requestVars, responseVars, browserVars, accessVars>>

NextClient == Start \/ Read \/ ReadDone \/ ReadError \/ Resume \/ Abandon

SpecClient == InitClient /\ [][NextClient]_vars

----------------------------------------------------------------------------
\* The adapter factories (minimaxAdapterFactory, mistralAdapterFactory,
\* openrouterAdapterFactory): error messages and upstream clients

Factories == {"minimax", "mistral", "openrouter"}

\* What a route handler catches: exceptions with and without the error
\* body of the upstream, plain objects, and values that are no objects.
Errors ==
  LET object(isError, message, error) ==
        [tag |-> "object", instanceOfError |-> isError, message |-> message,
         error |-> error]
  IN { object(TRUE, Str(<<"boom">>), Undefined),
       object(TRUE, Str(<<"429 ", "rate limited">>),
              object(FALSE, Str(<<"rate limited">>), Undefined)),
       object(TRUE, Str(<<"400 status code (no body)">>), Null),
       object(TRUE, Str(<<"500">>), object(FALSE, Num(42), Undefined)),
       object(FALSE, Undefined, object(FALSE, Str(<<"bad key">>), Undefined)),
       object(FALSE, Undefined, object(FALSE, Undefined, Undefined)),
       object(FALSE, Str(<<"not an exception">>), Str(<<"text">>)),
       Str(<<"oops">>), Num(500), Null, Undefined }

\* get(object, path) of lodash: undefined as soon as a step of the path
\* meets a value without that property.
RECURSIVE get(_, _)
get(object, path) ==
  IF path = <<>>
    THEN object
    ELSE IF object.tag = "object"
      THEN get(object[Head(path)], Tail(path))
      ELSE Undefined

\* extractErrorMessage of the factory of provider p; the Mistral factory
\* does not look for error.error.message.
extractErrorMessage(p, error) ==
  IF p # "mistral" /\ get(error, <<"error", "message">>).tag = "string"
    THEN get(error, <<"error", "message">>)
    ELSE IF error.tag = "object" /\ error.instanceOfError
      THEN error.message
      ELSE Str(<<"Internal server error">>)

\* No call is under observation.
InitGateway ==
  /\ returned = [op |-> "none", args |-> <<>>, value |-> Undefined]
  /\ now = 1
  /\ NoStream
  /\ NoPair
  /\ NoRequest
  /\ NoResponse
  /\ NoClient
  /\ NoBrowser
  /\ NoAccess

\* A route handler passes what it caught to the factory of its provider.
ExtractErrorMessage ==
  \E p \in Factories, error \in Errors :
    /\ returned' = [op |-> "extractErrorMessage", args |-> <<Str(<<p>>), error>>,
                    value |-> extractErrorMessage(p, error)]
    /\ UNCHANGED <<now, streamVars, pairVars, requestVars, responseVars, clientVars, browserVars, accessVars>>

Thrown(message) == [tag |-> "thrown", message |-> message]

\* new OpenAI({ apiKey }) of the openai package: an apiKey left undefined
\* defaults to the environment variable OPENAI_API_KEY, and the
\* constructor throws when there is none.
OpenAIProvider(apiKey, env) ==
  IF Coalesce(apiKey, env) = Undefined
    THEN Thrown(Str(<<"The OPENAI_API_KEY environment variable is missing or empty">>))
    ELSE [tag |-> "client", class |-> "OpenAI", apiKey |-> Coalesce(apiKey, env)]

\* createClient(apiKey, options) of the factory of provider p, with
\* options.mockMode, config.llm.mistral.apiKey and the environment.
createClient(p, apiKey, mockMode, configApiKey, env) ==
  CASE p = "minimax" ->
         [tag |-> "client", class |-> "MinimaxClient", apiKey |-> apiKey]
    [] p = "mistral" ->
         OpenAIProvider(Coalesce(apiKey, configApiKey), env)
    [] p = "openrouter" ->
         IF mockMode
           THEN [tag |-> "client", class |-> "MockOpenAIClient", apiKey |-> Undefined]
           ELSE IF ~Truthy(apiKey)
             THEN Thrown(Str(<<"API key required for OpenRouter">>))
             ELSE OpenAIProvider(
                    Str(IF Head(apiKey.v) = "Bearer " THEN Tail(apiKey.v) ELSE apiKey.v),
                    env)

CreateClient ==
  \E p \in Factories, apiKey \in {Undefined, Str(<<"sk-1">>), Str(<<"Bearer ", "sk-1">>)},
     mockMode \in BOOLEAN, configApiKey \in {Undefined, Str(<<"sk-cfg">>)},
     env \in {Undefined, Str(<<"sk-env">>)} :
    /\ returned' = [op |-> "createClient",
                    args |-> <<Str(<<p>>), apiKey, Bool(mockMode), configApiKey, env>>,
                    value |-> createClient(p, apiKey, mockMode, configApiKey, env)]
    /\ UNCHANGED <<now, streamVars, pairVars, requestVars, responseVars, clientVars, browserVars, accessVars>>

\* execute(client, request): the request the client sends upstream, with
\* its Authorization header. MinimaxClient.chatCompletions sets the header
\* when it has a key; the OpenAI client always has one; the mock client
\* sends nothing.
Execute ==
  /\ returned.op = "createClient"
  /\ returned.value.tag = "client"
  /\ returned.value.class # "MockOpenAIClient"
  /\ returned' =
       [op |-> "fetch", args |-> <<returned.args[1], returned.value>>,
        value |-> [method |-> "POST",
                   Authorization |->
                     IF Truthy(returned.value.apiKey)
                       THEN Str(<<"Bearer ">> \o returned.value.apiKey.v)
                       ELSE Undefined]]
  /\ UNCHANGED <<now, streamVars, pairVars, requestVars, responseVars, clientVars, browserVars, accessVars>>

----------------------------------------------------------------------------
\* Tool invocation policies (routes/proxy/utils/tool-invocation).

Dict(entries) == [tag |-> "dict", entries |-> entries]

\* The argument objects of the tool calls.
ArgumentValues ==
  { Dict(<< [key |-> "nested", value |-> Dict(<< [key |-> "key", value |-> Str(<<"value">>)] >>)],
             [key |-> "array", value |-> Arr(<<Num(1), Num(2)>>)] >>),
    Dict(<< [key |-> "path", value |-> Str(<<"/etc/passwd">>)],
             [key |-> "mode", value |-> Str(<<"read">>)] >>),
    Dict(<< [key |-> "path", value |-> Str(<<"/tmp/a">>)] >>),
    Dict(<< >>) }

\* JSON.stringify(value), one token per punctuation mark, key and scalar;
\* stringifying a string escapes the quotes inside it.
RECURSIVE JSONstringify(_), Members(_, _)
JSONstringify(value) ==
  CASE value.tag = "string" ->
         <<"\"">>
         \o [i \in DOMAIN value.v |->
               IF value.v[i] = "\"" THEN "\\\"" ELSE value.v[i]]
         \o <<"\"">>
    [] value.tag = "number" -> <<ToString(value.v)>>
    [] value.tag = "array" -> <<"[">> \o Members(value.v, 1) \o <<"]">>
    [] value.tag = "dict" -> <<"{">> \o Members(value.entries, 1) \o <<"}">>

Members(s, i) ==
  IF i > Len(s)
    THEN <<>>
    ELSE (IF i > 1 THEN <<",">> ELSE <<>>)
         \o (IF DOMAIN s[i] = {"key", "value"}
               THEN <<"\"", s[i].key, "\"", ":">> \o JSONstringify(s[i].value)
               ELSE JSONstringify(s[i]))
         \o Members(s, i + 1)

\* The text without the whitespace between its tokens.
Compact(text) == SelectSeq(text, LAMBDA t : t # " ")

\* JSON.parse(text): the value this text is a serialization of.
JSONparseArguments(text) ==
  IF \E value \in ArgumentValues : JSONstringify(value) = Compact(text.v)
    THEN CHOOSE value \in ArgumentValues : JSONstringify(value) = Compact(text.v)
    ELSE [tag |-> "SyntaxError"]

\* `${value}` in a template literal.
String(value) ==
  IF value.tag = "string" THEN value.v ELSE <<"[object Object]">>

\* The arguments as the caller wrote them, with a space after each colon
\* and comma.
RECURSIVE Spaced(_)
Spaced(text) ==
  IF text = <<>>
    THEN <<>>
    ELSE IF Head(text) \in {":", ","}
      THEN <<Head(text), " ">> \o Spaced(Tail(text))
      ELSE <<Head(text)>> \o Spaced(Tail(text))

ToolCallArgs ==
  ArgumentValues
  \cup { Str(JSONstringify(value)) : value \in ArgumentValues }
  \cup { Str(Spaced(JSONstringify(value))) : value \in ArgumentValues }

PolicyTools == {"test-tool", "file-reader"}

ToolCallLists ==
  LET calls == [toolCallName : PolicyTools, toolCallArgs : ToolCallArgs]
  IN { <<c>> : c \in calls }
     \cup { <<c, d>> : c \in {x \in calls : x.toolCallName = "test-tool"},
                       d \in {x \in calls : x.toolCallName = "file-reader"
                                            /\ x.toolCallArgs.tag = "string"
                                            /\ Compact(x.toolCallArgs.v) # x.toolCallArgs.v} }

\* The stored policy of each tool of the agent: whether it may be used when
\* untrusted data is present, and whether a rule blocks paths under /etc/.
Policies ==
  { [t \in PolicyTools |-> policy] :
      policy \in [allowUsageWhenUntrustedDataIsPresent : BOOLEAN, blocksEtc : BOOLEAN] }

\* Mutant of toolInput: the arguments are serialized as they arrive.
toolInputUnparsed(toolCallArgs) == toolCallArgs

\* The arguments of a call as a value: a string is parsed.
toolInput(toolCallArgs) ==
  IF toolCallArgs.tag = "string" THEN JSONparseArguments(toolCallArgs) ELSE toolCallArgs

\* Mutant of IsBlocked: the argument-level rules are not consulted.
IsBlockedByContextOnly(call, policies, contextIsTrusted) ==
  /\ ~contextIsTrusted
  /\ ~policies[call.toolCallName].allowUsageWhenUntrustedDataIsPresent

IsBlocked(call, policies, contextIsTrusted) ==
  \/ ~contextIsTrusted
     /\ ~policies[call.toolCallName].allowUsageWhenUntrustedDataIsPresent
  \/ /\ policies[call.toolCallName].blocksEtc
     /\ toolInput(call.toolCallArgs).tag = "dict"
     /\ \E i \in DOMAIN toolInput(call.toolCallArgs).entries :
          /\ toolInput(call.toolCallArgs).entries[i].key = "path"
          /\ toolInput(call.toolCallArgs).entries[i].value = Str(<<"/etc/passwd">>)

\* evaluatePolicies(toolCalls, agentId, contextIsTrusted): null when every
\* call is allowed, otherwise the refusal of the first blocked call.
evaluatePolicies(toolCalls, policies, contextIsTrusted) ==
  LET blocked == {i \in DOMAIN toolCalls : IsBlocked(toolCalls[i], policies, contextIsTrusted)}
      call == toolCalls[CHOOSE i \in blocked : \A j \in blocked : i <= j]
      arguments == JSONstringify(toolInput(call.toolCallArgs))
      contentMessage ==
        <<"I tried to invoke the ", call.toolCallName,
          " tool with the following arguments: ">>
        \o arguments
        \o <<". However, I was denied by a tool invocation policy">>
  IN IF blocked = {}
       THEN Null
       ELSE [tag |-> "tuple",
             refusalMessage |->
               Str(<<"<archestra-tool-name>", call.toolCallName, "</archestra-tool-name>",
                     "<archestra-tool-arguments>">>
                   \o arguments \o <<"</archestra-tool-arguments>">> \o contentMessage),
             contentMessage |-> Str(contentMessage)]

EvaluatePolicies ==
  \E toolCalls \in ToolCallLists, policies \in Policies, contextIsTrusted \in BOOLEAN :
    /\ returned' = [op |-> "evaluatePolicies",
                    args |-> <<Arr(toolCalls), [tag |-> "policies", v |-> policies],
                               Bool(contextIsTrusted)>>,
                    value |-> evaluatePolicies(toolCalls, policies, contextIsTrusted)]
    /\ UNCHANGED <<now, streamVars, pairVars, requestVars, responseVars, clientVars, browserVars, accessVars>>

NextGateway == ExtractErrorMessage \/ CreateClient \/ Execute \/ EvaluatePolicies

SpecGateway == InitGateway /\ [][NextGateway]_vars

----------------------------------------------------------------------------
\* The processed chunk sequence, read independently of the accumulator

HasChoice(c) == ~IsNullish(c.choices) /\ c.choices.v # <<>>
ChoiceOf(c) == c.choices.v[1]
LastChunk == chunks[Len(chunks)]

\* The tool-call fragments a chunk carries, in order.
FragmentsOf(c) ==
  IF HasChoice(c) /\ ChoiceOf(c).delta.tool_calls.tag = "array"
    THEN ChoiceOf(c).delta.tool_calls.v
    ELSE <<>>

RECURSIVE AllFragments(_)
AllFragments(cs) ==
  IF cs = <<>> THEN <<>> ELSE FragmentsOf(Head(cs)) \o AllFragments(Tail(cs))

IndicesSeen(fs) == { fs[i].index : i \in DOMAIN fs }

\* Position of the first fragment with stream index idx.
FirstAt(fs, idx) ==
  CHOOSE i \in DOMAIN fs :
    fs[i].index = idx /\ \A j \in 1..(i - 1) : fs[j].index # idx

\* Slot of idx when slots are handed out in order of first occurrence.
ExpectedSlot(fs, idx) ==
  Cardinality({ fs[j].index : j \in 1..(FirstAt(fs, idx) - 1) }) + 1

\* The text of an optional string field ("" when the field is missing).
TextOf(x) == IF x.tag = "string" THEN x.v ELSE <<>>

\* Concatenation, in arrival order, of the argument fragments of idx.
RECURSIVE ConcatArguments(_, _)
ConcatArguments(fs, idx) ==
  IF fs = <<>>
    THEN <<>>
    ELSE (IF Head(fs).index = idx THEN TextOf(FunctionArguments(Head(fs))) ELSE <<>>)
         \o ConcatArguments(Tail(fs), idx)

\* The last non-empty id / function name a fragment of idx carried.
RECURSIVE LastIdOf(_, _)
LastIdOf(fs, idx) ==
  IF fs = <<>>
    THEN <<>>
    ELSE LET f == fs[Len(fs)]
         IN IF f.index = idx /\ TextOf(f.id) # <<>>
              THEN TextOf(f.id)
              ELSE LastIdOf(SubSeq(fs, 1, Len(fs) - 1), idx)

RECURSIVE LastNameOf(_, _)
LastNameOf(fs, idx) ==
  IF fs = <<>>
    THEN <<>>
    ELSE LET f == fs[Len(fs)]
         IN IF f.index = idx /\ TextOf(FunctionName(f)) # <<>>
              THEN TextOf(FunctionName(f))
              ELSE LastNameOf(SubSeq(fs, 1, Len(fs) - 1), idx)

----------------------------------------------------------------------------
\* C1: after processChunk has run on all chunks, the accumulated arguments
\* string of every tool call equals the concatenation, in arrival order, of
\* the argument fragments that carried its stream index (fragments are
\* appended, never replaced), so a payload that was valid JSON upstream is
\* accumulated unchanged.
C1_ArgumentsConcatenated ==
  LET fs == AllFragments(chunks)
  IN \A idx \in IndicesSeen(fs) :
       /\ ExpectedSlot(fs, idx) \in DOMAIN state.toolCalls
       /\ state.toolCalls[ExpectedSlot(fs, idx)].arguments
            = Str(ConcatArguments(fs, idx))

\* The payload {} of one tool call arrived split over two chunks.
C1_Witness ==
  /\ Len(chunks) >= 2
  /\ \E i \in DOMAIN state.toolCalls :
       state.toolCalls[i].arguments = Str(<<"{", "}">>)

\* C2: the map from stream index to slot is stable: the first fragment of
\* an index allocates one slot, later fragments of that index merge into
\* it (id and name overwritten when present, arguments appended); the
\* number of tool calls equals the number of distinct indices seen and no
\* slot holds anything of a fragment with another index.
C2_StableSlots ==
  LET fs == AllFragments(chunks)
  IN /\ Len(state.toolCalls) = Cardinality(IndicesSeen(fs))
     /\ DOMAIN currentToolCallIndices = IndicesSeen(fs)
     /\ \A idx \in IndicesSeen(fs) :
          /\ currentToolCallIndices[idx] + 1 = ExpectedSlot(fs, idx)
          /\ state.toolCalls[ExpectedSlot(fs, idx)] =
               [id |-> Str(LastIdOf(fs, idx)),
                name |-> Str(LastNameOf(fs, idx)),
                arguments |-> Str(ConcatArguments(fs, idx))]

\* Fragments of index 1, then index 0, then index 1 again: two slots, in
\* order of first occurrence.
C2_Witness ==
  LET fs == AllFragments(chunks)
  IN /\ Len(fs) = 3
     /\ fs[1].index = 1 /\ fs[2].index = 0 /\ fs[3].index = 1
     /\ Len(state.toolCalls) = 2
     /\ state.toolCalls[1].id = Str(<<"call_b">>)
     /\ state.toolCalls[1].arguments = Str(<<"{", "}">>)
     /\ state.toolCalls[2].id = Str(<<"call_a">>)

----------------------------------------------------------------------------
\* Finish reasons, text and usage of the processed chunks

\* The finish reason a chunk carries, Null when it omits one.
FinishReasonOf(c) ==
  IF HasChoice(c) /\ ChoiceOf(c).finish_reason.tag = "string"
       /\ ChoiceOf(c).finish_reason.v # <<>>
    THEN ChoiceOf(c).finish_reason
    ELSE Null

RECURSIVE FirstFinishReason(_)
FirstFinishReason(cs) ==
  IF cs = <<>> THEN Null
  ELSE IF FinishReasonOf(Head(cs)) # Null THEN FinishReasonOf(Head(cs))
  ELSE FirstFinishReason(Tail(cs))

RECURSIVE LastFinishReason(_)
LastFinishReason(cs) ==
  IF cs = <<>> THEN Null
  ELSE IF FinishReasonOf(cs[Len(cs)]) # Null THEN FinishReasonOf(cs[Len(cs)])
  ELSE LastFinishReason(SubSeq(cs, 1, Len(cs) - 1))

\* The content delta of a chunk ("" when it has none).
ContentOf(c) == IF HasChoice(c) THEN TextOf(ChoiceOf(c).delta.content) ELSE <<>>

RECURSIVE ConcatContent(_)
ConcatContent(cs) ==
  IF cs = <<>> THEN <<>> ELSE ContentOf(Head(cs)) \o ConcatContent(Tail(cs))

IsPrefix(a, b) == Len(a) <= Len(b) /\ SubSeq(b, 1, Len(a)) = a

CarriesUsage(c) == c.usage.tag = "object"
UsageSeen(cs) == \E i \in DOMAIN cs : CarriesUsage(cs[i])

\* A count of a usage object, 0 when the field is missing.
CountOf(x) == IF x.tag = "number" THEN x.v ELSE 0

\* The UsageView of the last usage object received, Null when there is none.
RECURSIVE LastUsageView(_)
LastUsageView(cs) ==
  IF cs = <<>> THEN Null
  ELSE IF CarriesUsage(cs[Len(cs)])
    THEN [tag |-> "object",
          inputTokens |-> Num(CountOf(cs[Len(cs)].usage.prompt_tokens)),
          outputTokens |-> Num(CountOf(cs[Len(cs)].usage.completion_tokens))]
  ELSE LastUsageView(SubSeq(cs, 1, Len(cs) - 1))

\* A step that is a processChunk call, and the chunk it was called on.
ChunkStep == Len(chunks') = Len(chunks) + 1
NewChunk == chunks'[Len(chunks')]

----------------------------------------------------------------------------
\* C3 as stated: stopReason after any chunk sequence equals the first
\* non-null finish reason that was processed (once set it never changes).
C3_FirstFinishReasonKept == state.stopReason = FirstFinishReason(chunks)

\* C3 as amended: stopReason after any chunk sequence equals the last
\* non-null finish reason that was processed, and is null when no chunk
\* carried one; a later chunk with another finish reason overwrites it.
C3_LastFinishReasonRecorded == state.stopReason = LastFinishReason(chunks)

\* Two different finish reasons were processed.
C3_Witness ==
  /\ FirstFinishReason(chunks) # LastFinishReason(chunks)
  /\ state.stopReason = LastFinishReason(chunks)

\* C4: a recorded finish reason is sticky: once stopReason is non-null, a
\* chunk that omits a finish reason (null finish_reason, empty delta, or no
\* choices at all) leaves stopReason at the recorded value.
C4_StickyFinishReason ==
  [][(ChunkStep /\ state.stopReason # Null /\ FinishReasonOf(NewChunk) = Null)
       => state'.stopReason = state.stopReason]_vars

\* A finish reason was recorded and a later chunk omitted it.
C4_Witness ==
  /\ Len(chunks) >= 2
  /\ FinishReasonOf(chunks[1]) # Null
  /\ FinishReasonOf(LastChunk) = Null
  /\ state.stopReason = FinishReasonOf(chunks[1])

\* C5: the accumulated text is append-only: every step leaves the old text
\* a prefix of the new one, and the text always equals the concatenation,
\* in arrival order, of the content deltas of the processed chunks.
C5_TextAppendOnly ==
  /\ [](state.text = Str(ConcatContent(chunks)))
  /\ [][IsPrefix(state.text.v, state'.text.v)]_vars

\* The chunks {role:"assistant",content:""}, {content:"Hello"},
\* {finish_reason:"stop"} gave text "Hello" and stopReason "stop".
C5_Witness ==
  /\ chunks =
       << Chunk(Arr(<<Choice(Delta(Str(<<"assistant">>), Str(<<>>), Undefined), Null)>>),
                Undefined),
          Chunk(Arr(<<Choice(Delta(Undefined, Str(<<"Hello">>), Undefined), Null)>>),
                Undefined),
          Chunk(Arr(<<Choice(EmptyDelta, Str(<<"stop">>))>>), Undefined) >>
  /\ state.text = Str(<<"Hello">>)
  /\ state.stopReason = Str(<<"stop">>)

\* C6 as stated: for every provider, processChunk returns isFinal = true
\* for every chunk whose choice carries a non-null finish reason, whether
\* or not usage has been received, and, for the provider that gets usage
\* on a terminal chunk without choices, for such a chunk carrying usage.
C6_FinalOnFinishReason ==
  (chunks # <<>> /\ result.tag = "result") =>
    /\ FinishReasonOf(LastChunk) # Null => result.isFinal
    /\ (provider = "mistral" /\ LastChunk.choices = Arr(<<>>) /\ CarriesUsage(LastChunk))
         => result.isFinal

\* C6 as amended: MiniMax's processChunk returns isFinal = true exactly for
\* a chunk whose choice carries a non-null finish reason; Mistral's returns
\* isFinal = true exactly when usage has been received, in this chunk or an
\* earlier one (a usage-only chunk with empty choices included), so for
\* Mistral a finish-reason chunk is final only once usage is known.
C6_FinalTransition ==
  (chunks # <<>> /\ result.tag = "result") =>
    /\ (provider = "minimax" /\ HasChoice(LastChunk))
         => (result.isFinal <=> FinishReasonOf(LastChunk) # Null)
    /\ provider = "mistral" => (result.isFinal <=> UsageSeen(chunks))

\* Mistral: a finish reason without usage was not final, the usage-only
\* chunk that followed was.
C6_Witness ==
  /\ provider = "mistral"
  /\ Len(chunks) >= 2
  /\ FinishReasonOf(chunks[Len(chunks) - 1]) # Null
  /\ ~UsageSeen(SubSeq(chunks, 1, Len(chunks) - 1))
  /\ LastChunk = Chunk(Arr(<<>>), Usage(Num(1), Num(2)))
  /\ result.tag = "result" /\ result.isFinal

\* C7: whenever a processed chunk carries a usage object it is normalized
\* into state.usage (missing counts as 0), for every chunk shape, a
\* usage-only chunk with an empty choices array included; state.usage is
\* the view of the last usage object received.  (Stated for streams whose
\* chunks all have a choices array, where no call throws.)
C7_UsageNormalized ==
  (\A i \in DOMAIN chunks : ~IsNullish(chunks[i].choices))
    => state.usage = LastUsageView(chunks)

UnchangedAccumulators ==
  /\ state'.text = state.text
  /\ state'.toolCalls = state.toolCalls
  /\ state'.rawToolCallEvents = state.rawToolCallEvents
  /\ state'.usage = state.usage
  /\ state'.stopReason = state.stopReason

HasRealField(delta) ==
  \/ TextOf(delta.content) # <<>>
  \/ (delta.tool_calls.tag = "array" /\ delta.tool_calls.v # <<>>)
  \/ TextOf(delta.role) # <<>>

\* The delta carries no text, no tool_calls property and no role marker.
HasNoRealField(delta) ==
  /\ TextOf(delta.content) = <<>>
  /\ delta.tool_calls.tag # "array"
  /\ TextOf(delta.role) = <<>>

C10_FinishReasonDefault ==
  ended =>
    LET expected == IF LastFinishReason(chunks) = Null
                      THEN Str(<<"stop">>)
                      ELSE state.stopReason
    IN /\ response.choices.v[1].finish_reason = expected
       /\ endSSE.v[2].choices.v[1].finish_reason = expected
       /\ expected # Null

\* The stream ended with only a usage chunk and no finish reason.
C10_Witness ==
  /\ ended
  /\ chunks # <<>>
  /\ LastChunk = Chunk(Arr(<<>>), Usage(Num(1), Num(2)))
  /\ LastFinishReason(chunks) = Null
  /\ response.choices.v[1].finish_reason = Str(<<"stop">>)

----------------------------------------------------------------------------
\* C11: toProviderResponse() puts a tool_calls list into the assistant
\* message if and only if at least one tool call was accumulated; the list
\* holds exactly the accumulated tool calls in slot order, each as a typed
\* function call with the accumulated id, name and arguments string.
C11_ToolCallsInResponse ==
  ended =>
    LET fs == AllFragments(chunks)
        tool_calls == response.choices.v[1].message.tool_calls
    IN IF fs = <<>>
         THEN tool_calls = Undefined
         ELSE /\ tool_calls.tag = "array"
              /\ Len(tool_calls.v) = Cardinality(IndicesSeen(fs))
              /\ \A i \in DOMAIN tool_calls.v :
                   tool_calls.v[i] =
                     [id |-> state.toolCalls[i].id, type |-> "function",
                      function |-> [name |-> state.toolCalls[i].name,
                                    arguments |-> state.toolCalls[i].arguments]]
              /\ \A idx \in IndicesSeen(fs) :
                   tool_calls.v[ExpectedSlot(fs, idx)] =
                     [id |-> Str(LastIdOf(fs, idx)), type |-> "function",
                      function |-> [name |-> Str(LastNameOf(fs, idx)),
                                    arguments |-> Str(ConcatArguments(fs, idx))]]

\* Two tool calls were accumulated, index 1 before index 0, and the
\* response lists both in slot order.
C11_Witness ==
  /\ ended
  /\ response.choices.v[1].message.tool_calls.tag = "array"
  /\ Len(response.choices.v[1].message.tool_calls.v) = 2
  /\ response.choices.v[1].message.tool_calls.v[1].id = Str(<<"call_b">>)
  /\ response.choices.v[1].message.tool_calls.v[2].function.name = Str(<<"read_file">>)

----------------------------------------------------------------------------
\* The delta of the chunk's choice has a tool_calls list (possibly empty).
CarriesToolCallList(c) ==
  HasChoice(c) /\ ChoiceOf(c).delta.tool_calls.tag = "array"

\* The delta of the chunk's choice has at least one tool-call fragment.
CarriesFragments(c) == FragmentsOf(c) # <<>>

FramesOf(cs) == Arr([i \in DOMAIN cs |-> Str(<<"data: ", cs[i], "\n\n">>)])

\* A call of getRawToolCallEvents() leaves the accumulator alone.
ReplayKeepsBuffer ==
  rawToolCallFrames' # rawToolCallFrames =>
    /\ state' = state
    /\ currentToolCallIndices' = currentToolCallIndices

\* C13 as stated: the buffer holds exactly the processed chunks whose delta
\* carries tool-call fragments, once each, in arrival order;
\* getRawToolCallEvents() replays exactly those chunks as SSE frames in that
\* order and does not change the buffer.
C13_FragmentChunksBuffered ==
  /\ [](/\ state.rawToolCallEvents = SelectSeq(chunks, CarriesFragments)
        /\ rawToolCallFrames # Undefined =>
             rawToolCallFrames = FramesOf(SelectSeq(chunks, CarriesFragments)))
  /\ [][ReplayKeepsBuffer]_vars

\* C13 as amended: the buffer holds exactly the processed chunks whose
\* delta has a tool_calls list, an empty list included, once each, in
\* arrival order; getRawToolCallEvents() replays exactly those chunks as SSE
\* frames in that order and does not change the buffer.
C13_ToolCallListChunksBuffered ==
  /\ [](/\ state.rawToolCallEvents = SelectSeq(chunks, CarriesToolCallList)
        /\ rawToolCallFrames # Undefined =>
             rawToolCallFrames = FramesOf(SelectSeq(chunks, CarriesToolCallList)))
  /\ [][ReplayKeepsBuffer]_vars

\* Three chunks were processed, the second is a text chunk; the two others
\* carry fragments, and were replayed as two frames.
C13_Witness ==
  /\ Len(chunks) = 3
  /\ CarriesFragments(chunks[1])
  /\ ~CarriesToolCallList(chunks[2])
  /\ CarriesFragments(chunks[3])
  /\ chunks[1] # chunks[3]
  /\ rawToolCallFrames # Undefined
  /\ Len(rawToolCallFrames.v) = 2

----------------------------------------------------------------------------
AccumulatedFields(st, indices) ==
  [text |-> st.text, toolCalls |-> st.toolCalls, indices |-> indices,
   rawToolCallEvents |-> st.rawToolCallEvents, usage |-> st.usage,
   stopReason |-> st.stopReason]

\* C12: for any two stream adapter instances and any interleaving of
\* processChunk calls on them, text, toolCalls, the index-to-slot map,
\* rawToolCallEvents, usage and stopReason of each instance equal what they
\* would be had only that instance's own chunks been processed.
C12_StreamsIndependent ==
  \A i \in DOMAIN adapters :
    LET alone == Accumulated(adapters[i].provider, adapters[i].chunks,
                             [state |-> InitialState, indices |-> <<>>], 0)
    IN AccumulatedFields(adapters[i].state,
                         toolCallIndexMaps[adapters[i].currentToolCallIndices])
         = AccumulatedFields(alone.state, alone.indices)

\* Both streams have accumulated a tool call for stream index 0, the
\* second stream after the first, with chunks of the two streams
\* alternating.
C12_Witness ==
  /\ adapters # <<>>
  /\ Len(adapters[1].chunks) = 2
  /\ Len(adapters[2].chunks) = 2
  /\ adapters[1].state.timing.firstChunkTime = Num(1)
  /\ adapters[2].state.timing.firstChunkTime = Num(2)
  /\ Len(adapters[1].state.toolCalls) = 1
  /\ Len(adapters[2].state.toolCalls) = 1
  /\ adapters[1].state.toolCalls[1].arguments = Str(<<"{">>)
  /\ adapters[2].state.toolCalls[1].arguments = Str(<<"{">>)
  /\ adapters[1].state.toolCalls[1].id = Str(<<"call_a">>)
  /\ adapters[2].state.toolCalls[1].id = Str(<<"call_a">>)

----------------------------------------------------------------------------
\* The last call on the adapter was a call of op.
Called(op) == returned # Undefined /\ returned.op = op

\* The step is a call of one of ops.
Calls(ops) == returned'.op \in ops

AdapterUnchanged ==
  /\ request' = request
  /\ modifiedModel' = modifiedModel
  /\ toolResultUpdates' = toolResultUpdates

\* C14: for every provider and every adapter state, whatever model
\* override and tool-result updates are queued, a call of toProviderRequest()
\* changes neither the wrapped request nor the queued mutations, and a
\* second call right after it returns the same output.
C14_SerializeIdempotent ==
  [][Calls({"toProviderRequest"}) =>
       /\ AdapterUnchanged
       /\ toProviderRequest(Adapter').value = returned'.value
       /\ Called("toProviderRequest") => returned'.value = returned.value]_vars

\* toProviderRequest() was called with a model override and an update for
\* call_1 queued, and the update changed the serialized messages.
C14_Witness ==
  /\ Called("toProviderRequest")
  /\ modifiedModel = Str(<<"m2">>)
  /\ Str(<<"call_1">>) \in DOMAIN toolResultUpdates
  /\ returned.value.messages # request.messages
  /\ returned.value.model = Str(<<"m2">>)

Mutators ==
  {"setModel", "updateToolResult", "applyToolResultUpdates", "applyToonCompression"}

Accessors ==
  {"getModel", "isStreaming", "getMessages", "getToolResults", "getTools", "hasTools"}

\* An accessor call changes neither the adapter nor what a later
\* toProviderRequest() returns.
AccessorsPure ==
  Calls(Accessors) =>
    /\ AdapterUnchanged
    /\ toProviderRequest(Adapter').value = toProviderRequest(Adapter).value

\* Only the contents of tool messages differ between the message lists.
OnlyToolContentsDiffer(before, after) ==
  /\ Len(after) = Len(before)
  /\ \A i \in DOMAIN before :
       IF before[i].role = "tool"
         THEN after[i] = [before[i] EXCEPT !.content = after[i].content]
         ELSE after[i] = before[i]

\* C15 as stated: setModel, updateToolResult, applyToolResultUpdates and
\* applyToonCompression all leave the wrapped request unchanged, and the
\* read accessors change neither the adapter's state nor the result of a
\* later toProviderRequest().
C15_MutationsBuffered ==
  [][/\ Calls(Mutators) => request' = request
     /\ AccessorsPure]_vars

\* C15 as amended: setModel, updateToolResult and applyToolResultUpdates
\* leave the wrapped request unchanged; applyToonCompression replaces the
\* wrapped request at once by a copy in which only the contents of tool
\* messages differ, and leaves the queued model and updates alone; the read
\* accessors change neither the adapter's state nor the result of a later
\* toProviderRequest().
C15_OnlyCompressionEager ==
  [][/\ Calls({"setModel", "updateToolResult", "applyToolResultUpdates"}) =>
          request' = request
     /\ Calls({"applyToonCompression"}) =>
          /\ request' = [request EXCEPT !.messages = request'.messages]
          /\ OnlyToolContentsDiffer(request.messages, request'.messages)
          /\ modifiedModel' = modifiedModel
          /\ toolResultUpdates' = toolResultUpdates
     /\ AccessorsPure]_vars

\* A model override and an update are queued, then applyToonCompression
\* has replaced the content of a tool message of the wrapped request.
C15_Witness ==
  /\ Called("applyToonCompression")
  /\ modifiedModel = Str(<<"m2">>)
  /\ request.model = Str(<<"m1">>)
  /\ Str(<<"call_1">>) \in DOMAIN toolResultUpdates
  /\ \E i \in DOMAIN request.messages :
       /\ request.messages[i].role = "tool"
       /\ request.messages[i].content = toonEncode(JSONparse(JsonRows))

\* C16: toProviderRequest() returns the wrapped request with every queued
\* mutation applied: each tool message whose tool_call_id has a queued
\* update carries the last content queued for that id, the empty string
\* included; the model is the last one passed to setModel, if any; every
\* other message and field is unchanged and the message order is kept.
C16_QueuedMutationsApplied ==
  /\ [](Called("toProviderRequest") =>
          LET out == returned.value
          IN /\ Len(out.messages) = Len(request.messages)
             /\ \A i \in DOMAIN request.messages :
                  LET message == request.messages[i]
                  IN IF message.role = "tool"
                          /\ message.tool_call_id \in DOMAIN toolResultUpdates
                       THEN out.messages[i] =
                              [message EXCEPT
                                 !.content = toolResultUpdates[message.tool_call_id]]
                       ELSE out.messages[i] = message
             /\ out.model = IF modifiedModel # Null THEN modifiedModel
                                                   ELSE request.model
             /\ out.stream = request.stream
             /\ out.tools = request.tools)
  /\ [][/\ Calls({"setModel"}) => modifiedModel' = returned'.args[1]
        /\ Calls({"updateToolResult"}) =>
             /\ DOMAIN toolResultUpdates' =
                  DOMAIN toolResultUpdates \cup {returned'.args[1]}
             /\ \A k \in DOMAIN toolResultUpdates' :
                  toolResultUpdates'[k] =
                    IF k = returned'.args[1] THEN returned'.args[2]
                                             ELSE toolResultUpdates[k]
        /\ Calls({"applyToolResultUpdates"}) =>
             /\ DOMAIN toolResultUpdates' =
                  DOMAIN toolResultUpdates \cup DOMAIN returned'.args[1].v
             /\ \A k \in DOMAIN toolResultUpdates' :
                  toolResultUpdates'[k] =
                    IF k \in DOMAIN returned'.args[1].v
                      THEN returned'.args[1].v[k]
                      ELSE toolResultUpdates[k]]_vars

\* The function name recorded for the id in the last assistant message
\* whose tool-call list contains the id, "unknown" when there is none.
NamesId(message, id) ==
  /\ message.role = "assistant"
  /\ message.tool_calls.tag = "array"
  /\ \E j \in DOMAIN message.tool_calls.v : message.tool_calls.v[j].id = id

ExpectedToolName(messages, id) ==
  LET naming == { i \in DOMAIN messages : NamesId(messages[i], id) }
  IN IF naming = {}
       THEN Str(<<"unknown">>)
       ELSE LET last == CHOOSE i \in naming : \A k \in naming : k <= i
                calls == messages[last].tool_calls.v
                first == CHOOSE j \in DOMAIN calls :
                           /\ calls[j].id = id
                           /\ \A k \in DOMAIN calls : calls[k].id = id => j <= k
            IN calls[first].function.name

ToolMessagesOf(messages) == SelectSeq(messages, LAMBDA m : m.role = "tool")

\* C17: getToolResults() does not throw and reports, for every tool message
\* of the request, in order, the function name recorded for its
\* tool_call_id in the most recent assistant message (the last one in the
\* list) whose tool-call list contains that id, and "unknown" when no
\* assistant message contains it.
C17_ToolNameCorrelated ==
  Called("getToolResults") =>
    LET tools == ToolMessagesOf(request.messages)
    IN /\ returned.value.tag = "array"
       /\ Len(returned.value.v) = Len(tools)
       /\ \A k \in DOMAIN tools :
            /\ returned.value.v[k].id = tools[k].tool_call_id
            /\ returned.value.v[k].name =
                 ExpectedToolName(request.messages, tools[k].tool_call_id)

\* getToolResults() was called on a list where call_1 is named read_file
\* before its tool message and list after it: it reports list.
C17_Witness ==
  /\ Called("getToolResults")
  /\ Len(request.messages) = 4
  /\ NamesId(request.messages[1], Str(<<"call_1">>))
  /\ request.messages[2].role = "tool"
  /\ NamesId(request.messages[3], Str(<<"call_1">>))
  /\ returned.value.v[1].name = Str(<<"list">>)
  /\ request.messages[1].tool_calls.v[1].function.name = Str(<<"read_file">>)

\* C18: in the messages getMessages() returns, every tool message carries
\* exactly one tool result, with the id of the request's tool message, its
\* name and its content, also when the id matches no assistant tool call.
C18_ToolMessageHasOneResult ==
  Called("getMessages") =>
    /\ Len(returned.value.v) = Len(request.messages)
    /\ \A i \in DOMAIN request.messages :
         request.messages[i].role = "tool" =>
           /\ returned.value.v[i].toolCalls.tag = "array"
           /\ Len(returned.value.v[i].toolCalls.v) = 1
           /\ returned.value.v[i].toolCalls.v[1].id = request.messages[i].tool_call_id
           /\ returned.value.v[i].toolCalls.v[1].name =
                ExpectedToolName(request.messages, request.messages[i].tool_call_id)
           /\ returned.value.v[i].toolCalls.v[1].content =
                ParsedOrRaw(request.messages[i].content)

----------------------------------------------------------------------------
\* C19: toRefusalResponse(refusalMessage, contentMessage) returns a
\* response with one choice whose assistant message has the content
\* contentMessage and no tool calls and whose finish_reason is "stop",
\* whatever tool calls and finish reason the wrapped response had, and the
\* wrapped response is left as it was; a content message naming the blocked
\* tool is thus answered as a plain assistant message without tool_calls.
C19_RefusalResponse ==
  /\ [](Called("toRefusalResponse") =>
          LET out == returned.value
          IN /\ Len(out.choices.v) = 1
             /\ out.choices.v[1].message.role = "assistant"
             /\ out.choices.v[1].message.content = returned.args[2]
             /\ out.choices.v[1].message.tool_calls = Undefined
             /\ out.choices.v[1].finish_reason = Str(<<"stop">>)
             /\ out.id = wrappedResponse.id
             /\ out.model = wrappedResponse.model
             /\ out.usage = wrappedResponse.usage)
  /\ [][Calls({"toRefusalResponse"}) => wrappedResponse' = wrappedResponse]_vars

\* The wrapped response asked for two tool calls and stopped for length;
\* the refusal names read_file and carries no tool call.
C19_Witness ==
  /\ Called("toRefusalResponse")
  /\ Len(wrappedResponse.choices.v) = 1
  /\ wrappedResponse.choices.v[1].message.tool_calls.tag = "array"
  /\ Len(wrappedResponse.choices.v[1].message.tool_calls.v) = 2
  /\ wrappedResponse.choices.v[1].finish_reason = Str(<<"length">>)
  /\ \E i \in DOMAIN returned.value.choices.v[1].message.content.v :
       returned.value.choices.v[1].message.content.v[i] = "read_file"
  /\ returned.value.choices.v[1].message.tool_calls = Undefined
  /\ returned.value.choices.v[1].finish_reason = Str(<<"stop">>)

\* The count the upstream usage object gives for the field, 0 when the
\* object or the field is missing.
CountOrZero(usage, field) ==
  IF usage.tag = "object" /\ usage[field].tag = "number" THEN usage[field].v ELSE 0

\* Some chunk of the stream carries a number for the usage field.
StreamCarries(cs, field) ==
  \E i \in DOMAIN cs :
    /\ cs[i].usage.tag = "object"
    /\ cs[i].usage[field].tag = "number"

\* C20: getUsage() reports numbers, never null or undefined: the upstream
\* count where there is one and 0 for a missing usage object or field; the
\* usage of toProviderResponse() holds natural numbers, 0 for every count no
\* chunk of the stream carried, and total_tokens is prompt_tokens plus
\* completion_tokens.
C20_UsageTotal ==
  /\ Called("getUsage") =>
       /\ returned.value.inputTokens.tag = "number"
       /\ returned.value.outputTokens.tag = "number"
       /\ returned.value.inputTokens.v \in Nat
       /\ returned.value.outputTokens.v \in Nat
       /\ returned.value.inputTokens.v = CountOrZero(wrappedResponse.usage, "prompt_tokens")
       /\ returned.value.outputTokens.v =
            CountOrZero(wrappedResponse.usage, "completion_tokens")
  /\ Called("toProviderResponse") =>
       LET usage == returned.value.usage
           cs == returned.args[1].v
       IN /\ usage.prompt_tokens \in Nat
          /\ usage.completion_tokens \in Nat
          /\ usage.total_tokens = usage.prompt_tokens + usage.completion_tokens
          /\ ~StreamCarries(cs, "prompt_tokens") => usage.prompt_tokens = 0
          /\ ~StreamCarries(cs, "completion_tokens") => usage.completion_tokens = 0

\* getUsage() was called on a response whose usage has prompt_tokens but no
\* completion_tokens.
C20_Witness ==
  /\ Called("getUsage")
  /\ wrappedResponse.usage.tag = "object"
  /\ wrappedResponse.usage.prompt_tokens = Num(3)
  /\ wrappedResponse.usage.completion_tokens = Undefined
  /\ returned.value = [inputTokens |-> Num(3), outputTokens |-> Num(0)]

----------------------------------------------------------------------------
\* C21: for either provider, applyToonCompression replaces the content of a
\* tool message only by an encoding of strictly fewer tokens than the
\* content it replaces; every other message, one whose content does not
\* parse as JSON included, is left as it was.
C21_SubstitutedOnlyWhenSmaller ==
  [][Calls({"applyToonCompression"}) =>
       /\ Len(request'.messages) = Len(request.messages)
       /\ \A i \in DOMAIN request.messages :
            request'.messages[i] # request.messages[i] =>
              /\ request.messages[i].role = "tool"
              /\ JSONparse(unwrapToolContent(request.messages[i].content)).tag = "json"
              /\ countTokens(request'.messages[i].content)
                   < countTokens(request.messages[i].content)]_vars

\* C22: a second applyToonCompression, run with the same encoder on the
\* request the first one left, changes no message (so no content shrinks
\* further) and, for MiniMax, reports a compressedCount of 0 and as many
\* compressed bytes as original bytes.
C22_CompressionIdempotent ==
  [][(/\ Called("applyToonCompression")
      /\ Calls({"applyToonCompression"})
      /\ returned'.args = returned.args) =>
       /\ request' = request
       /\ requestProvider = "minimax" =>
            /\ returned'.value.compressedCount = 0
            /\ returned'.value.compressedBytes = returned'.value.originalBytes]_vars

\* A second pass has run on a MiniMax request whose two tool results are
\* the array of arrays, as it was, and the encoding of the rows.
C22_Witness ==
  /\ Called("applyToonCompression")
  /\ requestProvider = "minimax"
  /\ Len(request.messages) = 4
  /\ request.messages[2].content = NestedRows
  /\ request.messages[4].content = toonEncode(JSONparse(JsonRows))
  /\ JsonRows \in returned.args[2].v.compressed
  /\ returned.value.compressedCount = 0
  /\ returned.value.originalBytes = 28

\* The tool messages of the request on which compression fails: the
\* content does not parse as JSON, or the encoder or tokenizer throws on it.
FailsToCompress(message, enc) ==
  /\ message.role = "tool"
  /\ \/ JSONparse(unwrapToolContent(message.content)).tag = "SyntaxError"
     \/ unwrapToolContent(message.content) \in enc.throws
     \/ message.content \in enc.throws

RECURSIVE Utf8Length(_)
Utf8Length(tokens) ==
  IF tokens = <<>>
    THEN 0
    ELSE (IF Head(tokens) = "é" THEN 2 ELSE Len(Head(tokens))) + Utf8Length(Tail(tokens))

\* The step is a MiniMax applyToonCompression whose statistics are the
\* totals, in the measure Size, over the tool messages of the request:
\* original contents, forwarded contents, number of substituted contents.
\* The step keeps the non-tool messages and the order of the messages.
StatsAreTotals(Size(_)) ==
  LET before == request.messages
      after == request'.messages
      tools == { i \in DOMAIN before : before[i].role = "tool" }
  IN /\ Len(after) = Len(before)
     /\ \A i \in DOMAIN before :
          /\ i \notin tools => after[i] = before[i]
          /\ i \in tools => after[i] = [before[i] EXCEPT !.content = after[i].content]
     /\ requestProvider = "minimax" =>
          /\ returned'.value.originalBytes =
               Sum([i \in DOMAIN before |->
                      IF i \in tools THEN Size(before[i].content.v) ELSE 0])
          /\ returned'.value.compressedBytes =
               Sum([i \in DOMAIN before |->
                      IF i \in tools THEN Size(after[i].content.v) ELSE 0])
          /\ returned'.value.compressedCount =
               Cardinality({ i \in tools : after[i].content # before[i].content })

\* C24: the statistics applyToonCompression returns are the totals over
\* the tool messages of the request, whatever order the per-message
\* compressions settle in: originalBytes the byte lengths of the original
\* contents, compressedBytes the byte lengths of the forwarded contents,
\* compressedCount the number of substituted contents; non-tool messages
\* and the message order are unchanged.
C24_StatsAreByteTotals ==
  [][Calls({"applyToonCompression"}) => StatsAreTotals(Utf8Length)]_vars

\* The same totals with content.length, the number of UTF-16 code units,
\* for a measure: this is what the code accumulates.
StatsAreLengthTotals ==
  [][Calls({"applyToonCompression"}) => StatsAreTotals(Length)]_vars

----------------------------------------------------------------------------
\* The chunks of the well-formed data lines of the body, in the order of
\* the lines, and its malformed data lines as they are logged.
WellFormedChunks ==
  LET wellFormed == SelectSeq(body.lines,
                              LAMBDA l : l.kind = "data" /\ l.payload \in ChunkJSON)
  IN [i \in DOMAIN wellFormed |-> [tag |-> "json", of |-> wellFormed[i].payload]]

MalformedLines ==
  LET malformed == SelectSeq(body.lines,
                             LAMBDA l : l.kind = "data" /\ l.payload \notin ChunkJSON)
  IN [i \in DOMAIN malformed |-> DataPrefix \o malformed[i].payload]

\* C25: a data line whose payload is not valid JSON is logged and skipped:
\* whatever the reads, the generator yields chunks of well-formed data
\* lines only, in the order of the lines, and when it has run to the end of
\* the body it has yielded every one of them, those after a malformed line
\* included, and logged every malformed line.
C25_MalformedFramesSkipped ==
  (pc # "none" /\ body # Null) =>
    /\ IsPrefix(yielded, WellFormedChunks)
    /\ IsPrefix(logged, MalformedLines)
    /\ pc = "done" => yielded = WellFormedChunks /\ logged = MalformedLines

\* The generator ran to the end of a body with a malformed line between
\* two chunks: both chunks were yielded and the line was logged.
C25_Witness ==
  /\ pc = "done"
  /\ Len(body.lines) = 3
  /\ body.lines[2].payload = <<"x">>
  /\ yielded = <<[tag |-> "json", of |-> <<"1">>], [tag |-> "json", of |-> <<"2">>]>>
  /\ logged = <<DataPrefix \o <<"x">>>>

----------------------------------------------------------------------------
\* The chunks the generator yields from the lines ls when the consumer
\* takes them all.
RECURSIVE ChunksOf(_)
ChunksOf(ls) ==
  LET r == UntilYield(ls, <<>>)
  IN IF r.chunk = Undefined THEN <<>> ELSE <<r.chunk>> \o ChunksOf(r.lines)

\* The chunks yielded when the first n bytes of the body arrive in a
\* single read: those of the lines that are complete, and those of the
\* unterminated rest, which the generator visits at the end of the body.
InOneRead(n) ==
  LET b == Buffered(decode(SubSeq(body.bytes, 1, n)).text)
  IN [complete |-> ChunksOf(b.lines), rest |-> ChunksOf(<<b.buffer>>)]

\* C26: however the body is cut into reads, the chunks yielded are those
\* yielded when it arrives in a single read, in the same order, each once:
\* while the body is being read only chunks of lines that have fully
\* arrived are yielded, and at its end all chunks have been.
C26_ReadSplitsInvisible ==
  (pc # "none" /\ body # Null) =>
    LET whole == InOneRead(Len(body.bytes))
    IN /\ IsPrefix(yielded, whole.complete \o whole.rest)
       /\ pc \in {"reading", "yielded"} =>
            IsPrefix(yielded, InOneRead(consumed).complete)
       /\ pc = "done" => yielded = whole.complete \o whole.rest

\* A read ended inside the accented letter of a payload: the decoder keeps
\* its first byte, the buffer the incomplete line, and nothing is yielded.
C26_Witness ==
  /\ pc = "reading"
  /\ kept = <<"C3">>
  /\ buffer = DataPrefix \o <<"\"">>
  /\ yielded = <<>>

----------------------------------------------------------------------------
\* C27: the lock getReader() took on the body is released exactly once on
\* every way out of the read loop, the end of the body, a failed read and
\* the consumer giving up, and never before; once it is released the
\* generator reads, yields and logs nothing more.
C27_ReaderReleasedOnce ==
  /\ [](pc # "none" =>
          /\ releases = IF reader = "released" THEN 1 ELSE 0
          /\ pc \in {"start", "reading", "yielded", "yieldedLast"} => reader # "released"
          /\ pc \in {"done", "returned"} => reader = "released"
          /\ pc = "thrown" => (reader = "released" \/ body = Null))
  /\ [][reader = "released" => UNCHANGED clientVars]_vars

\* The consumer gave up after the first chunk, with bytes of the body still
\* unread: the lock was released once.
C27_Witness ==
  /\ pc = "returned"
  /\ reader = "released"
  /\ releases = 1
  /\ Len(yielded) = 1
  /\ consumed < Len(body.bytes)

----------------------------------------------------------------------------
\* C28: for every provider, extractErrorMessage returns a string whatever
\* it is given: error.error.message when that is a string, otherwise the
\* message of the exception when it is given one, otherwise "Internal
\* server error".
C28_ErrorMessagePreference ==
  Called("extractErrorMessage") =>
    LET error == returned.args[2]
        structured ==
          IF error.tag = "object" /\ error.error.tag = "object"
            THEN error.error.message ELSE Undefined
    IN /\ returned.value.tag = "string"
       /\ returned.value =
            IF structured.tag = "string"
              THEN structured
              ELSE IF error.tag = "object" /\ error.instanceOfError
                THEN error.message
                ELSE Str(<<"Internal server error">>)

----------------------------------------------------------------------------
\* C29: for every provider, createClient called without an API key (none
\* passed, none in the configuration or the environment, mock mode off)
\* throws to its caller, and no request is sent upstream without an
\* Authorization header.
C29_MissingCredentialsFatal ==
  /\ Called("createClient") =>
       (/\ returned.args[2] = Undefined
        /\ returned.args[3] = Bool(FALSE)
        /\ returned.args[4] = Undefined
        /\ returned.args[5] = Undefined
        => returned.value.tag = "thrown")
  /\ Called("fetch") => returned.value.Authorization # Undefined

----------------------------------------------------------------------------
\* C30: when evaluatePolicies blocks a call, its contentMessage contains the
\* JSON serialization of the arguments of a call (of the value itself when
\* the arguments are structured, of the value they parse to when they arrive
\* as a string), it never contains "[object Object]", and it does not contain
\* string arguments encoded a second time.
Contains(text, sub) ==
  \E i \in 0..(Len(text) - Len(sub)) : SubSeq(text, i + 1, i + Len(sub)) = sub

C30_ContentMessageIsJson ==
  Called("evaluatePolicies") /\ returned.value # Null =>
    LET toolCalls == returned.args[1].v
        content == returned.value.contentMessage.v
    IN /\ \E i \in DOMAIN toolCalls, value \in ArgumentValues :
            /\ IF toolCalls[i].toolCallArgs.tag = "string"
                 THEN JSONstringify(value) = Compact(toolCalls[i].toolCallArgs.v)
                 ELSE value = toolCalls[i].toolCallArgs
            /\ Contains(content, <<toolCalls[i].toolCallName>>)
            /\ Contains(content, JSONstringify(value))
       /\ ~Contains(content, <<"[object Object]">>)
       /\ ~Contains(returned.value.refusalMessage.v, <<"[object Object]">>)
       /\ \A i \in DOMAIN toolCalls :
            toolCalls[i].toolCallArgs.tag = "string" =>
              ~Contains(content, JSONstringify(toolCalls[i].toolCallArgs))

\* A call whose arguments arrive as a spaced JSON string is blocked.
C30_Witness ==
  /\ Called("evaluatePolicies")
  /\ returned.value # Null
  /\ \E i \in DOMAIN returned.args[1].v :
       /\ returned.args[1].v[i].toolCallArgs.tag = "string"
       /\ Compact(returned.args[1].v[i].toolCallArgs.v) # returned.args[1].v[i].toolCallArgs.v
       /\ Contains(returned.value.contentMessage.v,
                   Compact(returned.args[1].v[i].toolCallArgs.v))

----------------------------------------------------------------------------
\* C31: evaluatePolicies returns null exactly when no proposed call is
\* blocked, a call being blocked when the context is untrusted and the policy
\* of its tool disallows use with untrusted data, or when an argument rule
\* matches its path; otherwise it returns a [refusalMessage, contentMessage]
\* pair whose refusalMessage carries the name of a blocked tool in its tag.
BlockedCalls ==
  LET toolCalls == returned.args[1].v
      policies == returned.args[2].v
      arguments(i) == toolCalls[i].toolCallArgs
      underEtc(i) ==
        IF arguments(i).tag = "string"
          THEN Contains(Compact(arguments(i).v),
                        <<"\"", "path", "\"", ":", "\"", "/etc/passwd", "\"">>)
          ELSE \E k \in DOMAIN arguments(i).entries :
                 arguments(i).entries[k] = [key |-> "path", value |-> Str(<<"/etc/passwd">>)]
  IN { i \in DOMAIN toolCalls :
         \/ /\ returned.args[3] = Bool(FALSE)
            /\ ~policies[toolCalls[i].toolCallName].allowUsageWhenUntrustedDataIsPresent
         \/ /\ policies[toolCalls[i].toolCallName].blocksEtc
            /\ underEtc(i) }

C31_NullIffNothingBlocked ==
  Called("evaluatePolicies") =>
    /\ returned.value = Null <=> BlockedCalls = {}
    /\ BlockedCalls # {} =>
         /\ returned.value.tag = "tuple"
         /\ returned.value.contentMessage.tag = "string"
         /\ \E i \in BlockedCalls :
              Contains(returned.value.refusalMessage.v,
                       <<"<archestra-tool-name>", returned.args[1].v[i].toolCallName,
                         "</archestra-tool-name>">>)

\* The second of two calls is blocked by an argument rule in a trusted
\* context, the first is allowed.
C31_Witness ==
  /\ Called("evaluatePolicies")
  /\ returned.args[3] = Bool(TRUE)
  /\ BlockedCalls = {2}
  /\ returned.value # Null

\* In an untrusted context every call is allowed by its policy.
C31_WitnessAllowed ==
  /\ Called("evaluatePolicies")
  /\ returned.args[3] = Bool(FALSE)
  /\ returned.value = Null

----------------------------------------------------------------------------
\* The lines of the body up to its first end marker.
RECURSIVE BeforeDone(_)
BeforeDone(ls) ==
  IF ls = <<>> \/ Head(ls).kind = "done"
    THEN <<>>
    ELSE <<Head(ls)>> \o BeforeDone(Tail(ls))

\* The text formatEndSSE returns is the frame of the final chunk, whose
\* JSON holds no line end, followed by the end marker frame.
EndFrameLast ==
  endSSE # Undefined =>
    /\ Len(endSSE.v) = 4
    /\ endSSE.v[1] = "data: "
    /\ endSSE.v[3] = "\n\n"
    /\ endSSE.v[4] = "data: [DONE]\n\n"

\* C32: `data: [DONE]` ends a frame sequence in both directions: the
\* generator never yields the end marker as a chunk and yields chunks of
\* the data lines before the first end marker only; the text formatEndSSE
\* returns ends with the `data: [DONE]\n\n` frame, which occurs in it once.
C32_DoneTerminates ==
  /\ (pc # "none" /\ body # Null) =>
       LET before == SelectSeq(BeforeDone(body.lines),
                               LAMBDA l : l.kind = "data" /\ l.payload \in ChunkJSON)
       IN /\ \A i \in DOMAIN yielded : yielded[i].of # <<"[", "D", "O", "N", "E", "]">>
          /\ IsPrefix(yielded, [i \in DOMAIN before |-> [tag |-> "json", of |-> before[i].payload]])
  /\ EndFrameLast

----------------------------------------------------------------------------
\* Browser stream subscriptions (BrowserStreamSocketClientContext).

ORPHAN_CLEANUP_DEBOUNCE_MS == 60000
MAX_CLEANUP_TIME_ENTRIES == 100

MaxSubscribes == 2
MaxStops == 1

WebSockets == {"ws1", "ws2"}

\* ConversationModel.getAgentIdForUser: two conversations of one agent; any
\* other conversation is missing or not the user's, and gives null.
AgentIdForUser == [c \in {"c1", "c2"} |-> 1]

Conversations == {"c1", "c2", "c3"}

\* Date.now() when the context is created.
StartTime == 10 * ORPHAN_CLEANUP_DEBOUNCE_MS

\* unsubscribeBrowserStream(ws) on the subscriptions and the timers.
unsubscribeBrowserStream(subs, timers, ws) ==
  IF subs[ws] # Undefined
    THEN [subs |-> [subs EXCEPT ![ws] = Undefined],
          timers |-> {t \in timers : t.id # subs[ws].intervalId}]
    ELSE [subs |-> subs, timers |-> timers]

\* unsubscribeBrowserStream for each WebSocket of a collection.
RECURSIVE UnsubscribedAll(_, _, _)
UnsubscribedAll(subs, timers, wsSet) ==
  IF wsSet = {}
    THEN [subs |-> subs, timers |-> timers]
    ELSE LET ws == CHOOSE w \in wsSet : TRUE
             u == unsubscribeBrowserStream(subs, timers, ws)
         IN UnsubscribedAll(u.subs, u.timers, wsSet \ {ws})

\* The WebSockets the takeover loop collects: subscribed for this agent to
\* a different conversation, and not the subscribing one.
subscriptionsToUnsubscribe(subs, ws, agentId, conversationId) ==
  { existingWs \in DOMAIN subs :
      /\ subs[existingWs] # Undefined
      /\ subs[existingWs].agentId = agentId
      /\ subs[existingWs].conversationId # conversationId
      /\ existingWs # ws }

\* sendTick() up to its await: nothing without a subscription or while it
\* is sending; otherwise isSending is set and sendScreenshot awaits the
\* screenshot for the subscription object, known by its intervalId.
\* A capture remembers the function that awaits it.
sendTick(subs, inFlight, ws) ==
  IF subs[ws] = Undefined \/ subs[ws].isSending
    THEN [subs |-> subs, captures |-> inFlight]
    ELSE [subs |-> [subs EXCEPT ![ws].isSending = TRUE],
          captures |-> inFlight \cup {[ws |-> ws, id |-> subs[ws].intervalId,
                                        by |-> "sendTick"]}]

\* maybeCleanupOrphanedTabs(agentId) at time t: the map afterwards and
\* whether cleanupOrphanedTabs was invoked.
maybeCleanupOrphanedTabs(map, agentId, t) ==
  LET known == {i \in DOMAIN map : map[i].agentId = agentId}
      lastCleanup == IF known = {} THEN 0 ELSE map[CHOOSE i \in known : TRUE].time
      entriesToRemove == (MAX_CLEANUP_TIME_ENTRIES + 3) \div 4
      limited == IF Len(map) >= MAX_CLEANUP_TIME_ENTRIES
                   THEN SubSeq(map, entriesToRemove + 1, Len(map))
                   ELSE map
      present == {i \in DOMAIN limited : limited[i].agentId = agentId}
  IN IF t - lastCleanup < ORPHAN_CLEANUP_DEBOUNCE_MS
       THEN [map |-> map, invoked |-> FALSE]
       ELSE [map |-> IF present = {}
                       THEN Append(limited, [agentId |-> agentId, time |-> t])
                       ELSE [limited EXCEPT ![CHOOSE i \in present : TRUE].time = t],
             invoked |-> TRUE]

InitBrowser ==
  /\ browserSubscriptions = [ws \in WebSockets |-> Undefined]
  /\ intervals = {}
  /\ handlers = <<>>
  /\ captures = {}
  /\ readyState = [ws \in WebSockets |-> "OPEN"]
  /\ wss \in BOOLEAN
  /\ lastOrphanCleanupTime = <<>>
  /\ lastCleanupCall = [a \in {1} |-> 0]
  /\ lastRequest = [ws \in WebSockets |-> "none"]
  /\ stops = 0
  /\ now = StartTime
  /\ returned = Undefined
  /\ NoStream
  /\ NoPair
  /\ NoRequest
  /\ NoResponse
  /\ NoClient
  /\ NoAccess

\* A subscribe_browser_stream message arrives: handleSubscribeBrowserStream
\* up to its first await.
Subscribe ==
  \E ws \in WebSockets, conversationId \in Conversations :
    /\ Len(handlers) < MaxSubscribes
    /\ readyState[ws] = "OPEN"
    /\ LET u == unsubscribeBrowserStream(browserSubscriptions, intervals, ws)
       IN /\ browserSubscriptions' = u.subs
          /\ intervals' = u.timers
    /\ handlers' = Append(handlers, [ws |-> ws, conversationId |-> conversationId,
                                     at |-> "getAgentIdForUser"])
    /\ lastRequest' = [lastRequest EXCEPT ![ws] = "subscribe"]
    /\ UNCHANGED <<captures, readyState, wss, lastOrphanCleanupTime, lastCleanupCall, stops>>
    /\ UNCHANGED <<now, returned, streamVars, pairVars, requestVars, responseVars,
                   clientVars, accessVars>>

\* getAgentIdForUser resolves: the error for a missing conversation, or the
\* takeover loop, up to the await of selectOrCreateTab.
AgentResolved ==
  \E k \in DOMAIN handlers :
    /\ handlers[k].at = "getAgentIdForUser"
    /\ IF handlers[k].conversationId \notin DOMAIN AgentIdForUser
         THEN /\ handlers' = [handlers EXCEPT ![k] = [at |-> "returned"]]
              /\ UNCHANGED <<browserSubscriptions, intervals>>
         ELSE LET u == UnsubscribedAll(
                         browserSubscriptions, intervals,
                         subscriptionsToUnsubscribe(
                           browserSubscriptions, handlers[k].ws,
                           AgentIdForUser[handlers[k].conversationId],
                           handlers[k].conversationId))
              IN /\ browserSubscriptions' = u.subs
                 /\ intervals' = u.timers
                 /\ handlers' = [handlers EXCEPT ![k].at = "selectOrCreateTab"]
    /\ UNCHANGED <<captures, readyState, wss, lastOrphanCleanupTime, lastCleanupCall,
                   lastRequest, stops>>
    /\ UNCHANGED <<now, returned, streamVars, pairVars, requestVars, responseVars,
                   clientVars, accessVars>>

\* selectOrCreateTab resolves: setInterval, the subscription is stored, the
\* first sendTick runs up to its await (sendScreenshot returns at once for a
\* WebSocket that is not open), and maybeCleanupOrphanedTabs is called.
TabSelected ==
  \E k \in DOMAIN handlers :
    /\ handlers[k].at = "selectOrCreateTab"
    /\ LET ws == handlers[k].ws
           agentId == AgentIdForUser[handlers[k].conversationId]
           stored == [browserSubscriptions EXCEPT ![ws] =
                        [conversationId |-> handlers[k].conversationId,
                         agentId |-> agentId, intervalId |-> k, isSending |-> FALSE]]
           ticked == IF readyState[ws] = "OPEN"
                       THEN sendTick(stored, captures, ws)
                       ELSE [subs |-> stored, captures |-> captures]
           cleanup == maybeCleanupOrphanedTabs(lastOrphanCleanupTime, agentId, now)
       IN /\ intervals' = intervals \cup {[id |-> k, ws |-> ws]}
          /\ browserSubscriptions' = ticked.subs
          /\ captures' = ticked.captures
          /\ lastOrphanCleanupTime' = cleanup.map
          /\ lastCleanupCall' = IF cleanup.invoked
                                  THEN [lastCleanupCall EXCEPT ![agentId] = now]
                                  ELSE lastCleanupCall
    /\ handlers' = [handlers EXCEPT ![k] = [at |-> "returned"]]
    /\ UNCHANGED <<readyState, wss, lastRequest, stops>>
    /\ UNCHANGED <<now, returned, streamVars, pairVars, requestVars, responseVars,
                   clientVars, accessVars>>

\* An interval timer fires.
Tick ==
  \E t \in intervals :
    /\ IF readyState[t.ws] = "OPEN"
         THEN LET ticked == sendTick(browserSubscriptions, captures, t.ws)
              IN /\ browserSubscriptions' = ticked.subs
                 /\ captures' = ticked.captures
                 /\ intervals' = intervals
         ELSE LET u == unsubscribeBrowserStream(browserSubscriptions, intervals, t.ws)
              IN /\ browserSubscriptions' = u.subs
                 /\ intervals' = u.timers
                 /\ captures' = captures
    /\ UNCHANGED <<handlers, readyState, wss, lastOrphanCleanupTime, lastCleanupCall,
                   lastRequest, stops>>
    /\ UNCHANGED <<now, returned, streamVars, pairVars, requestVars, responseVars,
                   clientVars, accessVars>>

\* sendScreenshot resolves or rejects: the finally block clears isSending
\* of the subscription object the capture was started on, which is in the
\* map only while its interval is the stored one.
CaptureDone ==
  \E c \in captures :
    /\ captures' = captures \ {c}
    /\ browserSubscriptions' =
         IF /\ browserSubscriptions[c.ws] # Undefined
            /\ browserSubscriptions[c.ws].intervalId = c.id
           THEN [browserSubscriptions EXCEPT ![c.ws].isSending = FALSE]
           ELSE browserSubscriptions
    /\ UNCHANGED <<intervals, handlers, readyState, wss, lastOrphanCleanupTime,
                   lastCleanupCall, lastRequest, stops>>
    /\ UNCHANGED <<now, returned, streamVars, pairVars, requestVars, responseVars,
                   clientVars, accessVars>>

\* sendImmediateScreenshot(ws, conversationId), after a navigation, click or
\* key press succeeded, up to its await.
ImmediateScreenshot ==
  \E ws \in WebSockets, conversationId \in Conversations :
    /\ browserSubscriptions[ws] # Undefined
    /\ browserSubscriptions[ws].conversationId = conversationId
    /\ readyState[ws] = "OPEN"
    /\ ~browserSubscriptions[ws].isSending
    /\ browserSubscriptions' = [browserSubscriptions EXCEPT ![ws].isSending = TRUE]
    /\ captures' = captures \cup {[ws |-> ws, id |-> browserSubscriptions[ws].intervalId,
                                    by |-> "sendImmediateScreenshot"]}
    /\ UNCHANGED <<intervals, handlers, readyState, wss, lastOrphanCleanupTime,
                   lastCleanupCall, lastRequest, stops>>
    /\ UNCHANGED <<now, returned, streamVars, pairVars, requestVars, responseVars,
                   clientVars, accessVars>>

\* An unsubscribe_browser_stream message arrives.
Unsubscribe ==
  \E ws \in WebSockets :
    /\ readyState[ws] = "OPEN"
    /\ LET u == unsubscribeBrowserStream(browserSubscriptions, intervals, ws)
       IN /\ browserSubscriptions' = u.subs
          /\ intervals' = u.timers
    /\ lastRequest' = [lastRequest EXCEPT ![ws] = "unsubscribe"]
    /\ UNCHANGED <<handlers, captures, readyState, wss, lastOrphanCleanupTime,
                   lastCleanupCall, stops>>
    /\ UNCHANGED <<now, returned, streamVars, pairVars, requestVars, responseVars,
                   clientVars, accessVars>>

\* The connection closes: the WebSocket leaves wss.clients and the server
\* unsubscribes it.
Close ==
  \E ws \in WebSockets :
    /\ readyState[ws] = "OPEN"
    /\ readyState' = [readyState EXCEPT ![ws] = "CLOSED"]
    /\ LET u == unsubscribeBrowserStream(browserSubscriptions, intervals, ws)
       IN /\ browserSubscriptions' = u.subs
          /\ intervals' = u.timers
    /\ lastRequest' = [lastRequest EXCEPT ![ws] = "close"]
    /\ UNCHANGED <<handlers, captures, wss, lastOrphanCleanupTime, lastCleanupCall, stops>>
    /\ UNCHANGED <<now, returned, streamVars, pairVars, requestVars, responseVars,
                   clientVars, accessVars>>

\* stop(): with a server, the connected clients are unsubscribed;
\* without one, clearSubscriptions() unsubscribes every key of the map.
Stop ==
  /\ stops < MaxStops
  /\ LET u == UnsubscribedAll(
                browserSubscriptions, intervals,
                IF wss THEN {ws \in WebSockets : readyState[ws] = "OPEN"}
                       ELSE {ws \in WebSockets : browserSubscriptions[ws] # Undefined})
     IN /\ browserSubscriptions' = u.subs
        /\ intervals' = u.timers
  /\ stops' = stops + 1
  /\ UNCHANGED <<handlers, captures, readyState, wss, lastOrphanCleanupTime,
                 lastCleanupCall, lastRequest>>
  /\ UNCHANGED <<now, returned, streamVars, pairVars, requestVars, responseVars,
                 clientVars, accessVars>>

NextBrowser ==
  \/ Subscribe
  \/ AgentResolved
  \/ TabSelected
  \/ Tick
  \/ CaptureDone
  \/ ImmediateScreenshot
  \/ Unsubscribe
  \/ Close
  \/ Stop

SpecBrowser == InitBrowser /\ [][NextBrowser]_vars

----------------------------------------------------------------------------
\* C33: the subscriptions registered for one agent all refer to the same
\* conversation, whatever the interleaving of the subscribe handlers.
C33_OneConversationPerAgent ==
  \A ws1, ws2 \in DOMAIN browserSubscriptions :
    /\ browserSubscriptions[ws1] # Undefined
    /\ browserSubscriptions[ws2] # Undefined
    /\ browserSubscriptions[ws1].agentId = browserSubscriptions[ws2].agentId
    => browserSubscriptions[ws1].conversationId = browserSubscriptions[ws2].conversationId

----------------------------------------------------------------------------
\* C34: every interval timer that was set and not cleared is the intervalId
\* of the subscription stored for its WebSocket.
C34_NoTimerLeak ==
  \A t \in intervals :
    /\ browserSubscriptions[t.ws] # Undefined
    /\ browserSubscriptions[t.ws].intervalId = t.id

----------------------------------------------------------------------------
\* C35: a WebSocket whose last request is from some point on an unsubscribe
\* or its close, for good, has from some point on no subscription and no
\* interval timer.
C35_UnsubscribedStaysClean ==
  \A ws \in WebSockets :
    <>[](lastRequest[ws] \in {"unsubscribe", "close"})
    => <>[](/\ browserSubscriptions[ws] = Undefined
            /\ \A t \in intervals : t.ws # ws)

\* The subscribe handlers resume, the timers fire and the captures end.
SpecBrowserFair ==
  /\ InitBrowser
  /\ [][NextBrowser]_vars
  /\ WF_vars(AgentResolved)
  /\ WF_vars(TabSelected)
  /\ WF_vars(Tick)
  /\ WF_vars(CaptureDone)

----------------------------------------------------------------------------
\* C36: at most one screenshot capture is in flight for a WebSocket.
C36_OneCaptureInFlight ==
  \A c, d \in captures : c.ws = d.ws => c = d

\* One subscription object has at most one capture in flight.
OneCapturePerSubscription ==
  \A c, d \in captures : c.ws = d.ws /\ c.id = d.id => c = d

----------------------------------------------------------------------------
\* C38: when stop() returns, no subscription is registered and no interval
\* timer is set.
C38_StopClearsAll ==
  [][stops' # stops =>
       /\ \A ws \in WebSockets : browserSubscriptions'[ws] = Undefined
       /\ intervals' = {}]_vars

----------------------------------------------------------------------------
\* Orphan tab cleanup over many agents: subscriptions complete for agent 1
\* or for the next agent that has had none, and the clock advances by a
\* debounce interval.

CleanupAgents == 1..(MAX_CLEANUP_TIME_ENTRIES + 2)

InitCleanup ==
  /\ lastOrphanCleanupTime = <<>>
  /\ lastCleanupCall = [a \in CleanupAgents |-> 0]
  /\ now = StartTime
  /\ returned = Undefined
  /\ browserSubscriptions = <<>>
  /\ intervals = {}
  /\ handlers = <<>>
  /\ captures = {}
  /\ readyState = <<>>
  /\ wss = FALSE
  /\ lastRequest = <<>>
  /\ stops = 0
  /\ NoStream
  /\ NoPair
  /\ NoRequest
  /\ NoResponse
  /\ NoClient
  /\ NoAccess

\* A subscribe handler reaches its last statement,
\* this.maybeCleanupOrphanedTabs(agentId, userContext).
SubscribedFor ==
  \E agentId \in CleanupAgents :
    /\ IF agentId = 1
         THEN TRUE
         ELSE lastCleanupCall[agentId] = 0 /\ lastCleanupCall[agentId - 1] # 0
    /\ LET cleanup == maybeCleanupOrphanedTabs(lastOrphanCleanupTime, agentId, now)
       IN /\ lastOrphanCleanupTime' = cleanup.map
          /\ lastCleanupCall' = IF cleanup.invoked
                                  THEN [lastCleanupCall EXCEPT ![agentId] = now]
                                  ELSE lastCleanupCall
    /\ UNCHANGED <<browserSubscriptions, intervals, handlers, captures, readyState, wss,
                   lastRequest, stops>>
    /\ UNCHANGED <<now, returned, streamVars, pairVars, requestVars, responseVars,
                   clientVars, accessVars>>

\* Time passes.
ClockAdvances ==
  /\ now < StartTime + ORPHAN_CLEANUP_DEBOUNCE_MS
  /\ now' = now + ORPHAN_CLEANUP_DEBOUNCE_MS
  /\ UNCHANGED <<returned, streamVars, pairVars, requestVars, responseVars,
                 clientVars, browserVars, accessVars>>

NextCleanup == SubscribedFor \/ ClockAdvances

SpecCleanup == InitCleanup /\ [][NextCleanup]_vars

\* C37: whenever cleanupOrphanedTabs is invoked for an agent (its entry of
\* lastOrphanCleanupTime is set to the current time), the last invocation
\* for that agent, if there was one, is at least ORPHAN_CLEANUP_DEBOUNCE_MS
\* in the past.
C37_CleanupDebounced ==
  [][\A a \in DOMAIN lastCleanupCall :
       (/\ \E i \in DOMAIN lastOrphanCleanupTime' :
             lastOrphanCleanupTime'[i] = [agentId |-> a, time |-> now]
        /\ ~\E i \in DOMAIN lastOrphanCleanupTime :
             lastOrphanCleanupTime[i] = [agentId |-> a, time |-> now])
       => \/ lastCleanupCall[a] = 0
          \/ now - lastCleanupCall[a] >= ORPHAN_CLEANUP_DEBOUNCE_MS]_vars

----------------------------------------------------------------------------
\* Agent permissions (auth/agent-type-permissions).

AgentTypes == {"agent", "mcp_gateway"}

Scopes == {"org", "team", "personal"}

Users == {Str(<<"u1">>), Str(<<"u2">>)}

\* getResourceForAgentType of @shared: the resource named in a role's
\* permissions for each agent type.
getResourceForAgentType(agentType) ==
  CASE agentType = "agent" -> "agent"
    [] agentType = "mcp_gateway" -> "mcpGateway"
    [] agentType = "llm_proxy" -> "llmProxy"

\* The permissions of a user, as UserModel.getUserPermissions returns them:
\* the actions held on each resource.
UserPermissions == [{"agent", "mcpGateway"} -> SUBSET {"admin", "team-admin"}]

\* checker.isAdmin(agentType) and checker.isTeamAdmin(agentType)
isAdmin(permissions, agentType) ==
  "admin" \in permissions[getResourceForAgentType(agentType)]

isTeamAdmin(permissions, agentType) ==
  "team-admin" \in permissions[getResourceForAgentType(agentType)]

ApiError(status, message) == [tag |-> "thrown", status |-> status, message |-> message]

\* Mutant of requireAgentModifyPermission: a team admin may also manage
\* org-scoped agents.
requireAgentModifyPermissionOrgForTeamAdmin(permissions, agentType, agentScope, agentAuthorId, userId) ==
  IF isAdmin(permissions, agentType)
    THEN Undefined
    ELSE CASE agentScope \in {"org", "team"} ->
                IF ~isTeamAdmin(permissions, agentType)
                  THEN ApiError(403, "You need team-admin permission to manage team-scoped agents")
                  ELSE Undefined
           [] agentScope = "personal" ->
                IF agentAuthorId # userId
                  THEN ApiError(403, "You can only manage your own personal agents")
                  ELSE Undefined

\* requireAgentModifyPermission({ checker, agentType, agentScope,
\* agentAuthorId, userId }): undefined, or the ApiError it throws.
requireAgentModifyPermission(permissions, agentType, agentScope, agentAuthorId, userId) ==
  IF isAdmin(permissions, agentType)
    THEN Undefined
    ELSE CASE agentScope = "org" ->
                ApiError(403, "Only admins can manage org-scoped agents")
           [] agentScope = "team" ->
                IF ~isTeamAdmin(permissions, agentType)
                  THEN ApiError(403, "You need team-admin permission to manage team-scoped agents")
                  ELSE Undefined
           [] agentScope = "personal" ->
                IF agentAuthorId # userId
                  THEN ApiError(403, "You can only manage your own personal agents")
                  ELSE Undefined

\* A route handler checks a create, update or delete of an agent.
RequireAgentModifyPermission ==
  \E permissions \in UserPermissions, agentType \in AgentTypes, agentScope \in Scopes,
     agentAuthorId \in Users \cup {Null}, userId \in Users :
    /\ returned' = [op |-> "requireAgentModifyPermission",
                    args |-> <<[tag |-> "permissions", v |-> permissions], Str(<<agentType>>),
                               Str(<<agentScope>>), agentAuthorId, userId>>,
                    value |-> requireAgentModifyPermission(
                                permissions, agentType, agentScope, agentAuthorId, userId)]
    /\ UNCHANGED <<now, streamVars, pairVars, requestVars, responseVars,
                   clientVars, browserVars, accessVars>>

NextPermission == RequireAgentModifyPermission

SpecPermission == InitGateway /\ [][NextPermission]_vars

\* C39: requireAgentModifyPermission lets an admin of the agent type modify
\* an agent of any scope; otherwise it throws 403 for an org-scoped agent,
\* allows a team-scoped agent exactly to a team admin of the agent type, and
\* a personal agent exactly to its author.
C39_ThreeTierScopeRule ==
  Called("requireAgentModifyPermission") =>
    LET held == returned.args[1].v[getResourceForAgentType(returned.args[2].v[1])]
        scope == returned.args[3].v[1]
        allowed ==
          \/ "admin" \in held
          \/ scope = "team" /\ "team-admin" \in held
          \/ scope = "personal" /\ returned.args[4] = returned.args[5]
    IN /\ allowed => returned.value = Undefined
       /\ ~allowed => returned.value.tag = "thrown" /\ returned.value.status = 403

\* A team admin of every agent type, not an admin, is refused an org-scoped
\* agent of their own.
C39_Witness ==
  /\ Called("requireAgentModifyPermission")
  /\ returned.args[1].v = [r \in {"agent", "mcpGateway"} |-> {"team-admin"}]
  /\ returned.args[3] = Str(<<"org">>)
  /\ returned.args[4] = returned.args[5]
  /\ returned.value.tag = "thrown"

----------------------------------------------------------------------------
\* Agent access (AgentTeamModel) over the tables agents, team_member and
\* agent_team.

AgentIds == {"a1", "a2"}

Teams == {"t1", "t2"}

\* The rows an agent can have: its scope and its author_id, NULL included.
AgentRows == [scope : Scopes, authorId : {Str(<<"u1">>), Null}]

\* getUserAccessibleAgentIds(userId, isAgentAdmin) on the tables agents, tm
\* and at: every id for an agent admin, else the UNION of the three SELECTs.
getUserAccessibleAgentIds(agents, tm, at, userId, isAgentAdmin) ==
  IF isAgentAdmin
    THEN DOMAIN agents
    ELSE { id \in DOMAIN agents : agents[id].scope = "org" }
         \cup { id \in DOMAIN agents :
                  /\ agents[id].authorId # Null
                  /\ agents[id].authorId = userId
                  /\ agents[id].scope = "personal" }
         \cup { row[1].agentId :
                  row \in { r \in at \X tm :
                              /\ r[1].agentId \in DOMAIN agents
                              /\ r[1].teamId = r[2].teamId
                              /\ r[2].userId = userId
                              /\ agents[r[1].agentId].scope = "team" } }

\* Mutant of userHasAgentAccess: any team membership opens every
\* team-scoped agent.
userHasAgentAccessAnyTeam(agents, tm, at, userId, agentId, isAgentAdmin) ==
  IF isAgentAdmin THEN TRUE
  ELSE IF agentId \notin DOMAIN agents THEN FALSE
  ELSE LET agent == agents[agentId]
       IN IF agent.scope = "org" THEN TRUE
          ELSE IF agent.scope = "personal" THEN agent.authorId = userId
          ELSE IF agent.scope = "team"
            THEN LET teamIds == { m.teamId : m \in { x \in tm : x.userId = userId } }
                 IN teamIds # {}
            ELSE FALSE

\* userHasAgentAccess(userId, agentId, isAgentAdmin) on the same tables.
userHasAgentAccess(agents, tm, at, userId, agentId, isAgentAdmin) ==
  IF isAgentAdmin THEN TRUE
  ELSE IF agentId \notin DOMAIN agents THEN FALSE
  ELSE LET agent == agents[agentId]
       IN IF agent.scope = "org" THEN TRUE
          ELSE IF agent.scope = "personal" THEN agent.authorId = userId
          ELSE IF agent.scope = "team"
            THEN LET teamIds == { m.teamId : m \in { x \in tm : x.userId = userId } }
                     agentTeam == { x \in at : x.agentId = agentId /\ x.teamId \in teamIds }
                 IN IF teamIds = {} THEN FALSE ELSE agentTeam # {}
            ELSE FALSE

InitAccess ==
  /\ returned = [op |-> "none", args |-> <<>>, value |-> Undefined]
  /\ now = 1
  /\ NoStream
  /\ NoPair
  /\ NoRequest
  /\ NoResponse
  /\ NoClient
  /\ NoBrowser
  /\ NoAccess

AccessIdle ==
  UNCHANGED <<now, streamVars, pairVars, requestVars, responseVars,
              clientVars, browserVars>>

\* An agent is created.
InsertAgent ==
  \E agentId \in AgentIds \ DOMAIN agentsTable, row \in AgentRows :
    /\ agentsTable' = [id \in DOMAIN agentsTable \cup {agentId} |->
                         IF id = agentId THEN row ELSE agentsTable[id]]
    /\ UNCHANGED <<returned, teamMemberTable, agentTeamTable>>
    /\ AccessIdle

\* An agent is deleted; its agent_team rows go with it.
DeleteAgent ==
  \E agentId \in DOMAIN agentsTable :
    /\ agentsTable' = [id \in DOMAIN agentsTable \ {agentId} |-> agentsTable[id]]
    /\ agentTeamTable' = { x \in agentTeamTable : x.agentId # agentId }
    /\ UNCHANGED <<returned, teamMemberTable>>
    /\ AccessIdle

\* A user joins or leaves a team.
TeamMemberChanges ==
  \E teamId \in Teams, userId \in Users :
    LET member == [teamId |-> teamId, userId |-> userId]
    IN /\ teamMemberTable' = IF member \in teamMemberTable
                               THEN teamMemberTable \ {member}
                               ELSE teamMemberTable \cup {member}
       /\ UNCHANGED <<returned, agentsTable, agentTeamTable>>
       /\ AccessIdle

\* assignTeamsToAgent(agentId, teamIds): insert, on conflict do nothing.
AssignTeamsToAgent ==
  \E agentId \in DOMAIN agentsTable, teamIds \in SUBSET Teams :
    /\ agentTeamTable' = agentTeamTable \cup
                           { [agentId |-> agentId, teamId |-> t] : t \in teamIds }
    /\ UNCHANGED <<returned, agentsTable, teamMemberTable>>
    /\ AccessIdle

\* removeTeamFromAgent(agentId, teamId)
RemoveTeamFromAgent ==
  \E agentId \in AgentIds, teamId \in Teams :
    /\ agentTeamTable' = agentTeamTable \ {[agentId |-> agentId, teamId |-> teamId]}
    /\ UNCHANGED <<returned, agentsTable, teamMemberTable>>
    /\ AccessIdle

UserHasAgentAccess ==
  \E userId \in Users, agentId \in AgentIds, isAgentAdmin \in BOOLEAN :
    /\ returned' = [op |-> "userHasAgentAccess",
                    args |-> <<userId, Str(<<agentId>>), Bool(isAgentAdmin)>>,
                    value |-> Bool(userHasAgentAccess(agentsTable, teamMemberTable,
                                     agentTeamTable, userId, agentId, isAgentAdmin))]
    /\ UNCHANGED accessVars
    /\ AccessIdle

GetUserAccessibleAgentIds ==
  \E userId \in Users, isAgentAdmin \in BOOLEAN :
    /\ returned' = [op |-> "getUserAccessibleAgentIds",
                    args |-> <<userId, Bool(isAgentAdmin)>>,
                    value |-> [tag |-> "ids",
                               v |-> getUserAccessibleAgentIds(agentsTable, teamMemberTable,
                                       agentTeamTable, userId, isAgentAdmin)]]
    /\ UNCHANGED accessVars
    /\ AccessIdle

NextAccess ==
  \/ InsertAgent
  \/ DeleteAgent
  \/ TeamMemberChanges
  \/ AssignTeamsToAgent
  \/ RemoveTeamFromAgent
  \/ UserHasAgentAccess
  \/ GetUserAccessibleAgentIds

SpecAccess == InitAccess /\ [][NextAccess]_vars

\* C40: in every state of the three tables, for every user, every existing
\* agent and both values of isAgentAdmin, userHasAgentAccess is true exactly
\* when the agent's id is in getUserAccessibleAgentIds.
C40_AccessChecksAgree ==
  \A userId \in Users, agentId \in DOMAIN agentsTable, isAgentAdmin \in BOOLEAN :
    userHasAgentAccess(agentsTable, teamMemberTable, agentTeamTable,
                       userId, agentId, isAgentAdmin)
    <=> agentId \in getUserAccessibleAgentIds(agentsTable, teamMemberTable,
                                              agentTeamTable, userId, isAgentAdmin)

\* A user who is in a team, but in none assigned to the team-scoped agent,
\* is refused, while the other team-scoped agent is listed for that user.
C40_Witness ==
  /\ Called("userHasAgentAccess")
  /\ returned.args[3] = Bool(FALSE)
  /\ returned.value = Bool(FALSE)
  /\ returned.args[2] = Str(<<"a1">>)
  /\ DOMAIN agentsTable = AgentIds
  /\ agentsTable["a1"].scope = "team"
  /\ agentsTable["a2"].scope = "team"
  /\ \E x \in teamMemberTable : x.userId = returned.args[1]
  /\ \E x \in agentTeamTable : x.agentId = "a1"
  /\ "a2" \in getUserAccessibleAgentIds(agentsTable, teamMemberTable, agentTeamTable,
                                        returned.args[1], FALSE)

====
